---- MODULE Spec2Model ----
(***************************************************************************)
(* Dataset-construction core of the basketball detection pipeline:        *)
(*   - DatasetSplitter   (src/src/dataset_splitter.py)                     *)
(*   - FrameExtractor    (src/src/frame_extractor.py)                      *)
(*   - QualityFilter     (src/src/quality_filter.py)                       *)
(* Each component has its own specification (SpecSplit, SpecExtract,       *)
(* SpecFilter); a component's actions leave the other components'          *)
(* variables unchanged.                                                    *)
(***************************************************************************)
EXTENDS Integers, Sequences, FiniteSets, TLC

\* ------------------------------------------------------------------------
\* Bounds of the model
\* ------------------------------------------------------------------------
\* number of sub-folders of the splitter's input directory
MaxVideos == 3
\* number of *.jpg files of one video folder
MaxCount == 3
\* number of decodable frames of a video given to the extractor
MaxVideoFrames == 6
\* largest sampling interval tried
MaxInterval == 3
\* largest max_frames_per_video cap tried
MaxCap == 2
\* number of image files of one folder given to the quality filter
MaxFiles == 3
\* most boxes in one annotation
MaxBoxes == 2
\* most successive calls of a box transform on one annotation
MaxCalls == 2
\* most image files under the augmentor's input directory
MaxImages == 2
\* largest augmentations_per_image
MaxAug == 2
\* most video files found under video_dir
MaxBatch == 2
\* most images in the folder given to separate_images_by_ball
MaxSepImages == 2
\* largest --batch-size
MaxBatchSize == 2
\* most videos in data/source_videos
MaxSource == 2
\* most extracted-frame folders stage 3 finds
MaxFrameFolders == 2

\* The python None (no list, no image): comparable with every sequence
None == <<>>

\* ------------------------------------------------------------------------
\* Generic helpers
\* ------------------------------------------------------------------------
Range(s) == {s[k] : k \in DOMAIN s}

Min(a, b) == IF a <= b THEN a ELSE b

Abs(x) == IF x < 0 THEN -x ELSE x

\* ceil(a / b) for a >= 0, b >= 1
CeilDiv(a, b) == (a + b - 1) \div b

\* All orders in which a directory listing may enumerate the entries 1..n
ListingOrders(n) == {p \in [1..n -> 1..n] : \A a, b \in 1..n : a # b => p[a] # p[b]}

VARIABLES
  \* ---- DatasetSplitter ----
  input_dir,      \* input_dir[name] = number of *.jpg in sub-folder `name` (names 1..n, in name order)
  seed,           \* the random stream Random(seed) yields: seed[i] is the draw randbelow(i+1)
  ratios,         \* <<train_ratio, val_ratio, test_ratio>> in percent
  sPc,            \* position in split(): "start", "shuffle", "assign", "assigned", "failed"
  sRun,           \* 1 or 2: which of two successive split() runs over the same input
  videos,         \* the list `videos` of (video_folder, image_count), shuffled in place
  sIdx,           \* position of the `for vid, cnt in videos` loop (1-based, next to visit)
  train, val, test,
  c_train, c_val,
  firstResult,    \* what the first run returned: <<train, val, test>>, or None
  input_exists,   \* self.input_dir.exists()
  out_dirs,       \* the partition directories that exist under output_dir
  copied,         \* copied[p]: the (video_folder, image_count) copied into partition p, in order
  data_yaml,      \* how many times data.yaml was written
  summary,        \* the content of split_summary.json (NoSummary while it does not exist)
  summary_writes, \* how many times split_summary.json was written
  split_result,   \* what split() returned (NoSplitResult while it runs)
  \* ---- FrameExtractor ----
  video,          \* the decodable frames of the video, each frame's content
  frame_interval,
  max_frames,     \* 0 models None (no cap); self.max_frames is tested for truth
  ePc,            \* "start", "loop", "done"
  frame_count,
  saved_count,
  metadata,       \* list of [frame_number, saved_index]
  written,        \* written[saved_index] = content of the frame saved under that index
  \* ---- QualityFilter ----
  cfg,                    \* the quality_filter configuration read by __init__
  mode,                   \* "batch": filter_frames_batch; "direct": successive filter_frames calls
  fPc,                    \* "idle": no filter_frames call is running; "loop": inside its loop
  started,                \* how many of the video folders have had their pass begun
  image_files,            \* number of image files of the folder being filtered
  frames,                 \* what cv2.imread returned for the files visited so far (None: unreadable)
  previous_frame,
  previous_metric_frame,
  last_metric_frame,      \* self._last_metric_frame; None while the attribute does not exist
  quality_count,
  rejected_count,
  quality_frames_info,    \* list of [file (position in image_files), metrics]
  out_files,              \* the frames written to output_dir by this call, in order
  is_quality, metrics,    \* what the call's last is_quality_frame returned
  result,                 \* what filter_frames returned (NoResult while a call runs)
  results,                \* filter_frames_batch's list of results
  \* ---- DataAugmentor: one variant ----
  bboxes,           \* the annotation handed in: list of <<class, x_center, y_center, width, height>>
  aug_bboxes,       \* the annotation being transformed
  aug_image,        \* the image being transformed: the transforms applied to the source, in order
  aug_desc,         \* the tags appended so far
  vPc,              \* the transform apply_augmentations decides on next; "calls": direct calls
  augmentation_id,
  aug_name,         \* the returned descriptor ("" until apply_augmentations returns)
  \* ---- DataAugmentor.augment_dataset ----
  enabled,          \* self.enabled
  aug_per_image,    \* self.aug_per_image
  aug_files,        \* image_files: [folder, stem, ext, readable], in the order the globs yield
  gPc,              \* "start", "loop" (next image), "variants" (inside range(aug_per_image)), "done"
  gIdx,             \* position in image_files (1-based, next to visit)
  aug_id,           \* variants already generated for the current image
  total_original,
  total_augmented,
  aug_written,      \* the cv2.imwrite calls so far: [path, src, variant, boxes], in order
  aug_result,       \* what augment_dataset returned (NoAugResult while it runs)
  \* ---- FrameExtractor.extract_frames_from_videos ----
  video_files,        \* the videos found, in name order: [state, frames]
  organize_by_video,
  bPc,                \* "start", "next" (top of the for loop), "extracting", "done"
  bIdx,               \* position in video_files (1-based, next to process)
  batch_results,      \* the list `results`
  frame_dirs,         \* the output directories created
  frame_files         \* the frame files written, <<directory, file name>>
VARIABLES
  \* ---- separate_images_by_ball.main ----
  input_kind,         \* "missing" or "dir": what --input names
  images_to_process,  \* the sorted list of images; each with its name and the detector's
                      \* behaviour on it: [name, raises, boxes, cls_ok]
  names,              \* model.names: class id -> class name (a sequence of characters)
  dry_run,            \* args.dry_run
  batch_size,         \* args.batch_size
  workers,            \* args.workers
  mPc,                \* position in main(): "start", "single", "pool", "batch", "moving",
                      \* "report", "done"
  input_files,        \* file names present in the input folder
  ball_dir,           \* files of Ball_detected: set of [name, content]; content 0 is a file
                      \* that was there before the run, content i > 0 is input image i
  no_ball_dir,        \* files of No_ball_detected, likewise
  total,              \* the counter `total`
  moved_ball,         \* the counter `moved_ball`
  moved_no_ball,      \* the counter `moved_no_ball`
  batch_no,           \* index of the current chunk of chunked(images_to_process, bs)
  batch_pos,          \* position inside the current chunk (1-based, next to move)
  predicted,          \* outcome of model.predict on the current chunk: "", "error", "ok"
  returned,           \* returned[i]: what the detector call returned for image i:
                      \* "none" (not yet called), "error" or "result"
  placed,             \* placed[i]: the folder chosen for image i, "" before it is classified
  exit_code           \* return value of main(), None while running
VARIABLES
  \* ---- run_pipeline ----
  auto,               \* args.auto
  rPc,                \* position in interactive_mode() / auto_mode()
  source_videos,      \* number of videos list_source_videos() returns (videos 1..n)
  already_trimmed,    \* the videos whose folder exists in data/all_video_frames
  videos_to_trim,     \* the keys of the dict videos_to_trim, in insertion order
  trimmed_folders,    \* the list trimmed_folders
  todo,               \* the items the running stage's loop has still to visit
  success_count,      \* the running stage's success_count
  events,             \* what the stages did, in order: [stage, ev], ev one of
                      \* "start", "ok", "failed"
  banner,             \* whether "PIPELINE COMPLETED SUCCESSFULLY" was printed
  pipeline_exit       \* the value the mode function returned, None while running
VARIABLES
  \* ---- augment_dataset's variant loop, with the objects it passes around ----
  heap,               \* the objects: heap[a] = [kind, data]; an image holds the transforms
                      \* applied to the decoded picture, a list the addresses of its boxes,
                      \* a box its five numbers
  image_ref,          \* the caller's `image`
  bboxes_ref,         \* the caller's `bboxes`
  aug_image_ref,      \* apply_augmentations' `aug_image` (0: unbound)
  aug_bboxes_ref,     \* apply_augmentations' `aug_bboxes` (0: unbound)
  oPc,                \* "call", then the blocks of apply_augmentations, then "done"
  loop_aug_id,        \* `aug_id` of the for loop
  loop_count,         \* self.aug_per_image
  parsed              \* the boxes as parse_yolo_annotation returned them

splitVars == <<input_dir, seed, ratios, sPc, sRun, videos, sIdx, train, val, test,
               c_train, c_val, firstResult>>
extractVars == <<video, frame_interval, max_frames, ePc, frame_count, saved_count,
                 metadata, written>>
filterVars == <<cfg, mode, fPc, started, image_files, frames, previous_frame,
                previous_metric_frame, last_metric_frame, quality_count, rejected_count,
                quality_frames_info, out_files, is_quality, metrics, result, results>>
splitOutVars == <<input_exists, out_dirs, copied, data_yaml, summary, summary_writes,
                  split_result>>
splitVars_but_sPc == <<input_dir, seed, ratios, sRun, videos, sIdx, train, val, test,
                       c_train, c_val, firstResult>>
variantVars == <<bboxes, aug_bboxes, aug_image, aug_desc, vPc, augmentation_id, aug_name>>
augmentVars == <<enabled, aug_per_image, aug_files, gPc, gIdx, aug_id, total_original,
                 total_augmented, aug_written, aug_result>>
batchVars == <<video_files, organize_by_video, bPc, bIdx, batch_results, frame_dirs,
               frame_files>>
separateVars == <<input_kind, images_to_process, names, dry_run, batch_size, workers, mPc,
                  input_files, ball_dir, no_ball_dir, total, moved_ball, moved_no_ball,
                  batch_no, batch_pos, predicted, returned, placed, exit_code>>
pipelineVars == <<auto, rPc, source_videos, already_trimmed, videos_to_trim, trimmed_folders,
                  todo, success_count, events, banner, pipeline_exit>>
objectVars == <<heap, image_ref, bboxes_ref, aug_image_ref, aug_bboxes_ref, oPc, loop_aug_id,
                loop_count, parsed>>
notSplitVars == <<extractVars, filterVars, variantVars, augmentVars, batchVars, separateVars, pipelineVars, objectVars>>
notExtractVars == <<splitVars, splitOutVars, filterVars, variantVars, augmentVars, batchVars, separateVars, pipelineVars, objectVars>>
notFilterVars == <<splitVars, splitOutVars, extractVars, variantVars, augmentVars, batchVars, separateVars, pipelineVars, objectVars>>
notVariantVars == <<splitVars, splitOutVars, extractVars, filterVars, augmentVars, batchVars, separateVars, pipelineVars, objectVars>>
notAugmentVars == <<splitVars, splitOutVars, extractVars, filterVars, variantVars, batchVars, separateVars, pipelineVars, objectVars>>
notBatchVars == <<splitVars, splitOutVars, filterVars, variantVars, augmentVars, separateVars, pipelineVars, objectVars>>
notSeparateVars == <<splitVars, splitOutVars, extractVars, filterVars, variantVars,
                     augmentVars, batchVars, pipelineVars, objectVars>>
notPipelineVars == <<splitVars, splitOutVars, extractVars, filterVars, variantVars,
                     augmentVars, batchVars, separateVars, objectVars>>
notObjectVars == <<splitVars, splitOutVars, extractVars, filterVars, variantVars,
                   augmentVars, batchVars, separateVars, pipelineVars>>
vars == <<splitVars, splitOutVars, extractVars, filterVars, variantVars, augmentVars,
          batchVars, separateVars, pipelineVars, objectVars>>

\* ========================================================================
\* DatasetSplitter
\* ========================================================================
\* Configured ratio triples, in percent (train, val, test)
RatioChoices == {<<80, 10, 10>>, <<60, 20, 20>>, <<100, 0, 0>>}

\* The streams a seed can stand for: draw i is randbelow(i+1), a value of 0..i
Seeds == {s \in [1..(MaxVideos - 1) -> 0..(MaxVideos - 1)] : \A k \in DOMAIN s : s[k] <= k}

RECURSIVE SortedInsert(_, _)
SortedInsert(e, s) ==
  IF s = <<>> THEN <<e>>
  ELSE IF e[1] <= Head(s)[1] THEN <<e>> \o s
  ELSE <<Head(s)>> \o SortedInsert(e, Tail(s))

\* sorted(self.input_dir.iterdir())
RECURSIVE Sorted(_)
Sorted(s) == IF s = <<>> THEN <<>> ELSE SortedInsert(Head(s), Sorted(Tail(s)))

\* every sub-folder kept, whatever it holds
KeepAll(s) == s

RECURSIVE KeepWithImages(_)
KeepWithImages(s) ==
  IF s = <<>> THEN <<>>
  ELSE IF Head(s)[2] > 0 THEN <<Head(s)>> \o KeepWithImages(Tail(s))
  ELSE KeepWithImages(Tail(s))

\* the listing taken in the order the file system yields it
GatherVideosUnsorted(listing) == KeepWithImages(listing)

\* _gather_videos: the sub-folders in name order, those with at least one image
GatherVideos(listing) == KeepWithImages(Sorted(listing))

\* x[a], x[b] = x[b], x[a] written without the temporary
SwapLossy(x, a, b) == [x EXCEPT ![a] = x[b]]

\* x[a], x[b] = x[b], x[a]
Swap(x, a, b) == [x EXCEPT ![a] = x[b], ![b] = x[a]]

\* random.shuffle: for i in reversed(range(1, len(x))): j = randbelow(i + 1); swap x[i], x[j]
\* (k is i + 1, the 1-based position)
RECURSIVE ShuffleFrom(_, _, _)
ShuffleFrom(x, k, s) ==
  IF k < 2 THEN x ELSE ShuffleFrom(Swap(x, k, s[k - 1] + 1), k - 1, s)

Shuffle(x, s) == ShuffleFrom(x, Len(x), s)

RECURSIVE SumCnt(_)
SumCnt(s) == IF s = <<>> THEN 0 ELSE Head(s)[2] + SumCnt(Tail(s))

total_images == SumCnt(videos)
\* the targets, times 100 (the ratios are in percent)
target_train == ratios[1] * total_images
target_val == ratios[2] * total_images

\* `not train` alone: the capacity test left out
TrainTakesFirstOnly(cnt) == train = <<>>

\* c_train + cnt < target_train or not train
TrainTakesStrict(cnt) == (c_train + cnt) * 100 < target_train \/ train = <<>>

\* c_train + cnt <= target_train or not train
TrainTakes(cnt) == (c_train + cnt) * 100 <= target_train \/ train = <<>>

\* c_val + cnt <= target_val or not val
ValTakes(cnt) == (c_val + cnt) * 100 <= target_val \/ val = <<>>

\* the three partitions, in the order split() handles them
Partitions == <<"train", "val", "test">>

NoSplitResult ==
  [returned |-> FALSE, success |-> FALSE, train_images |-> 0, val_images |-> 0, test_images |-> 0]

\* line 171: {"success": False, "reason": "no_videos"}
FailedSplit ==
  [returned |-> TRUE, success |-> FALSE, train_images |-> 0, val_images |-> 0, test_images |-> 0]

NoSummary ==
  [counts |-> [p \in Range(Partitions) |-> 0], videos |-> [p \in Range(Partitions) |-> <<>>]]

\* the output directory before split() has touched it
EmptyOutput ==
  /\ out_dirs = {}
  /\ copied = [p \in Range(Partitions) |-> <<>>]
  /\ data_yaml = 0
  /\ summary = NoSummary
  /\ summary_writes = 0
  /\ split_result = NoSplitResult

InitSplitVars ==
  /\ input_exists = TRUE
  /\ EmptyOutput
  /\ \E n \in 0..MaxVideos : input_dir \in [1..n -> 0..MaxCount]
  /\ seed \in Seeds
  /\ ratios \in RatioChoices
  /\ sPc = "start"
  /\ sRun = 1
  /\ videos = <<>>
  /\ sIdx = 1
  /\ train = <<>> /\ val = <<>> /\ test = <<>>
  /\ c_train = 0 /\ c_val = 0
  /\ firstResult = None

\* split(), lines 169-171: gather ([] when the input directory is missing);
\* no video with images -> {"success": False}
SplitGather ==
  /\ sPc = "start"
  /\ \E order \in ListingOrders(Len(input_dir)) :
       LET listing == [k \in 1..Len(input_dir) |-> <<order[k], input_dir[order[k]]>>]
           vs == IF input_exists THEN GatherVideos(listing) ELSE <<>>
       IN /\ videos' = vs
          /\ sPc' = IF vs = <<>> THEN "failed" ELSE "shuffle"
          /\ split_result' = IF vs = <<>> THEN FailedSplit ELSE NoSplitResult
  /\ sIdx' = 1
  /\ train' = <<>> /\ val' = <<>> /\ test' = <<>>
  /\ c_train' = 0 /\ c_val' = 0
  /\ UNCHANGED <<input_dir, seed, ratios, sRun, firstResult>>
  /\ UNCHANGED <<input_exists, out_dirs, copied, data_yaml, summary, summary_writes>>
  /\ UNCHANGED notSplitVars

\* _assign_videos_to_splits, line 69
SplitShuffle ==
  /\ sPc = "shuffle"
  /\ videos' = Shuffle(videos, seed)
  /\ sPc' = "assign"
  /\ UNCHANGED <<input_dir, seed, ratios, sRun, sIdx, train, val, test, c_train, c_val,
                 firstResult>>
  /\ UNCHANGED splitOutVars
  /\ UNCHANGED notSplitVars

\* lines 79-81
AssignTrain ==
  /\ sPc = "assign" /\ sIdx <= Len(videos)
  /\ TrainTakes(videos[sIdx][2])
  /\ train' = Append(train, videos[sIdx])
  /\ c_train' = c_train + videos[sIdx][2]
  /\ sIdx' = sIdx + 1
  /\ UNCHANGED <<input_dir, seed, ratios, sPc, sRun, videos, val, test, c_val, firstResult>>
  /\ UNCHANGED splitOutVars
  /\ UNCHANGED notSplitVars

\* lines 82-84
AssignVal ==
  /\ sPc = "assign" /\ sIdx <= Len(videos)
  /\ ~TrainTakes(videos[sIdx][2])
  /\ ValTakes(videos[sIdx][2])
  /\ val' = Append(val, videos[sIdx])
  /\ c_val' = c_val + videos[sIdx][2]
  /\ sIdx' = sIdx + 1
  /\ UNCHANGED <<input_dir, seed, ratios, sPc, sRun, videos, train, test, c_train, firstResult>>
  /\ UNCHANGED splitOutVars
  /\ UNCHANGED notSplitVars

\* lines 85-86
AssignTest ==
  /\ sPc = "assign" /\ sIdx <= Len(videos)
  /\ ~TrainTakes(videos[sIdx][2])
  /\ ~ValTakes(videos[sIdx][2])
  /\ test' = Append(test, videos[sIdx])
  /\ sIdx' = sIdx + 1
  /\ UNCHANGED <<input_dir, seed, ratios, sPc, sRun, videos, train, val, c_train, c_val,
                 firstResult>>
  /\ UNCHANGED splitOutVars
  /\ UNCHANGED notSplitVars

\* line 93: return train, val, test
AssignReturn ==
  /\ sPc = "assign" /\ sIdx > Len(videos)
  /\ sPc' = "assigned"
  /\ UNCHANGED <<input_dir, seed, ratios, sRun, videos, sIdx, train, val, test, c_train,
                 c_val, firstResult>>
  /\ UNCHANGED splitOutVars
  /\ UNCHANGED notSplitVars

\* split() is run again over the same input directory, by a new call
SplitAgain ==
  /\ sPc = "assigned" /\ sRun = 1
  /\ firstResult' = <<train, val, test>>
  /\ sRun' = 2
  /\ sPc' = "start"
  /\ UNCHANGED <<input_dir, seed, ratios, videos, sIdx, train, val, test, c_train, c_val>>
  /\ UNCHANGED splitOutVars
  /\ UNCHANGED notSplitVars

NextSplit ==
  \/ SplitGather
  \/ SplitShuffle
  \/ AssignTrain
  \/ AssignVal
  \/ AssignTest
  \/ AssignReturn
  \/ SplitAgain

\* ---- split(), after the assignment: lines 175-198 ----
\* ratio triples that do not sum to 1.0
InvalidRatioChoices == {<<50, 20, 20>>, <<80, 30, 10>>}

\* one entry per video: the number of videos where the images are asked for
SummaryCountsByVideo(tr, va, te) ==
  [p \in Range(Partitions) |->
     IF p = "train" THEN Len(tr) ELSE IF p = "val" THEN Len(va) ELSE Len(te)]

\* lines 150-154: "counts"
SummaryCounts(tr, va, te) ==
  [p \in Range(Partitions) |->
     IF p = "train" THEN SumCnt(tr) ELSE IF p = "val" THEN SumCnt(va) ELSE SumCnt(te)]

\* [p.name for p, _ in part]
Names(part) == [k \in DOMAIN part |-> part[k][1]]

\* lines 155-159: "videos"
SummaryVideos(tr, va, te) ==
  [p \in Range(Partitions) |->
     IF p = "train" THEN Names(tr) ELSE IF p = "val" THEN Names(va) ELSE Names(te)]

\* a run of split() over a directory that may be missing, with ratios that
\* may not sum to 1.0
InitSplitRunVars ==
  /\ \E n \in 0..MaxVideos : input_dir \in [1..n -> 0..MaxCount]
  /\ input_exists \in BOOLEAN
  /\ input_exists \/ input_dir = <<>>
  /\ seed \in Seeds
  /\ ratios \in RatioChoices \cup InvalidRatioChoices
  /\ sPc = "start"
  /\ sRun = 1
  /\ videos = <<>>
  /\ sIdx = 1
  /\ train = <<>> /\ val = <<>> /\ test = <<>>
  /\ c_train = 0 /\ c_val = 0
  /\ firstResult = None
  /\ EmptyOutput

\* line 176: _ensure_dirs(self.output_dir)
EnsureDirs ==
  /\ sPc = "assigned"
  /\ out_dirs' = out_dirs \cup Range(Partitions)
  /\ sPc' = "copy"
  /\ UNCHANGED <<input_exists, copied, data_yaml, summary, summary_writes, split_result>>
  /\ UNCHANGED splitVars_but_sPc
  /\ UNCHANGED notSplitVars

\* lines 179-180: the next video folder of train is copied
CopyTrain ==
  /\ sPc = "copy"
  /\ Len(copied["train"]) < Len(train)
  /\ copied' = [copied EXCEPT !["train"] = Append(@, train[Len(@) + 1])]
  /\ UNCHANGED <<input_exists, out_dirs, data_yaml, summary, summary_writes, split_result>>
  /\ UNCHANGED splitVars
  /\ UNCHANGED notSplitVars

\* lines 181-182
CopyVal ==
  /\ sPc = "copy"
  /\ Len(copied["train"]) = Len(train)
  /\ Len(copied["val"]) < Len(val)
  /\ copied' = [copied EXCEPT !["val"] = Append(@, val[Len(@) + 1])]
  /\ UNCHANGED <<input_exists, out_dirs, data_yaml, summary, summary_writes, split_result>>
  /\ UNCHANGED splitVars
  /\ UNCHANGED notSplitVars

\* lines 183-184
CopyTest ==
  /\ sPc = "copy"
  /\ Len(copied["train"]) = Len(train)
  /\ Len(copied["val"]) = Len(val)
  /\ Len(copied["test"]) < Len(test)
  /\ copied' = [copied EXCEPT !["test"] = Append(@, test[Len(@) + 1])]
  /\ UNCHANGED <<input_exists, out_dirs, data_yaml, summary, summary_writes, split_result>>
  /\ UNCHANGED splitVars
  /\ UNCHANGED notSplitVars

\* line 187: _write_data_yaml(), once the three loops are over
WriteDataYaml ==
  /\ sPc = "copy"
  /\ Len(copied["train"]) = Len(train)
  /\ Len(copied["val"]) = Len(val)
  /\ Len(copied["test"]) = Len(test)
  /\ data_yaml' = data_yaml + 1
  /\ sPc' = "artifacts"
  /\ UNCHANGED <<input_exists, out_dirs, copied, summary, summary_writes, split_result>>
  /\ UNCHANGED splitVars_but_sPc
  /\ UNCHANGED notSplitVars

\* line 188: _write_summary(train, val, test)
WriteSummary ==
  /\ sPc = "artifacts"
  /\ summary' = [counts |-> SummaryCounts(train, val, test),
                 videos |-> SummaryVideos(train, val, test)]
  /\ summary_writes' = summary_writes + 1
  /\ sPc' = "summarised"
  /\ UNCHANGED <<input_exists, out_dirs, copied, data_yaml, split_result>>
  /\ UNCHANGED splitVars_but_sPc
  /\ UNCHANGED notSplitVars

\* lines 190-198: the result of a successful split
SplitReturn ==
  /\ sPc = "summarised"
  /\ split_result' = [returned |-> TRUE, success |-> TRUE, train_images |-> SumCnt(train),
                      val_images |-> SumCnt(val), test_images |-> SumCnt(test)]
  /\ sPc' = "done"
  /\ UNCHANGED <<input_exists, out_dirs, copied, data_yaml, summary, summary_writes>>
  /\ UNCHANGED splitVars_but_sPc
  /\ UNCHANGED notSplitVars

NextSplitRun ==
  \/ SplitGather
  \/ SplitShuffle
  \/ AssignTrain
  \/ AssignVal
  \/ AssignTest
  \/ AssignReturn
  \/ EnsureDirs
  \/ CopyTrain
  \/ CopyVal
  \/ CopyTest
  \/ WriteDataYaml
  \/ WriteSummary
  \/ SplitReturn

\* ========================================================================
\* FrameExtractor
\* ========================================================================
\* what a decoded frame shows (the sampler never looks at it)
FrameContents == {"dark", "bright"}

InitExtractVars ==
  /\ \E n \in 0..MaxVideoFrames : video \in [1..n -> FrameContents]
  /\ frame_interval \in 1..MaxInterval
  /\ max_frames \in 0..MaxCap
  /\ ePc = "start"
  /\ frame_count = 0
  /\ saved_count = 0
  /\ metadata = <<>>
  /\ written = <<>>

\* self.max_frames and saved_count > self.max_frames
CapReachedLate == max_frames # 0 /\ saved_count > max_frames

\* line 111: self.max_frames and saved_count >= self.max_frames
CapReached == max_frames # 0 /\ saved_count >= max_frames

\* line 109: frame_count % frame_interval == 0
IsSampled == frame_count % frame_interval = 0

\* lines 71-101: the video exists and opens; counters start at zero
ExtractOpen ==
  /\ ePc = "start"
  /\ ePc' = "loop"
  /\ frame_count' = 0
  /\ saved_count' = 0
  /\ metadata' = <<>>
  /\ UNCHANGED <<video, frame_interval, max_frames, written>>
  /\ UNCHANGED notExtractVars

\* lines 104-106: cap.read() returns no frame
ReadEnd ==
  /\ ePc = "loop"
  /\ frame_count >= Len(video)
  /\ ePc' = "done"
  /\ UNCHANGED <<video, frame_interval, max_frames, frame_count, saved_count, metadata,
                 written>>
  /\ UNCHANGED notExtractVars

\* lines 109, 140: a frame between two sampled positions
ReadSkip ==
  /\ ePc = "loop"
  /\ frame_count < Len(video)
  /\ ~IsSampled
  /\ frame_count' = frame_count + 1
  /\ UNCHANGED <<video, frame_interval, max_frames, ePc, saved_count, metadata, written>>
  /\ UNCHANGED notExtractVars

\* lines 111-113: the cap is reached at a sampled position
ReadCapBreak ==
  /\ ePc = "loop"
  /\ frame_count < Len(video)
  /\ IsSampled
  /\ CapReached
  /\ ePc' = "done"
  /\ UNCHANGED <<video, frame_interval, max_frames, frame_count, saved_count, metadata,
                 written>>
  /\ UNCHANGED notExtractVars

\* lines 115-140: the frame is written and recorded
ReadSave ==
  /\ ePc = "loop"
  /\ frame_count < Len(video)
  /\ IsSampled
  /\ ~CapReached
  /\ written' = Append(written, video[frame_count + 1])
  /\ metadata' = Append(metadata, [frame_number |-> frame_count, saved_index |-> saved_count])
  /\ saved_count' = saved_count + 1
  /\ frame_count' = frame_count + 1
  /\ UNCHANGED <<video, frame_interval, max_frames, ePc>>
  /\ UNCHANGED notExtractVars

NextExtract ==
  \/ ExtractOpen
  \/ ReadEnd
  \/ ReadSkip
  \/ ReadCapBreak
  \/ ReadSave

\* ---- extract_frames_from_videos, lines 159-245 ----
\* determine_frame_interval: the interval is always 30
ForcedInterval == 30

\* how many frames a found video decodes to
BatchLengths == {0, 30, 31}

\* the stems of the found videos, in the order of sorted(key=name.lower())
VideoNames == <<"a", "b", "c", "d">>

\* what a found video file can be: a video that opens, a path that no
\* longer leads to a file (a dangling link), a file cv2 cannot open
VideoFileChoices ==
  {[state |-> "ok", frames |-> n] : n \in BatchLengths}
    \cup {[state |-> "missing", frames |-> 0], [state |-> "unopenable", frames |-> 0]}

\* the loop left at the first failing video
StopAfterFailure(idx, n) == n + 1

\* lines 216, 233: the result is appended and the loop goes on
ContinueAfterFailure(idx, n) == idx + 1

\* lines 221-224
OutputDirOf(idx) ==
  IF organize_by_video THEN VideoNames[idx] \o "__skip" \o ToString(ForcedInterval)
  ELSE "output_base_dir"

\* line 117: f"{video_name}_skipped_30_frame_{saved_count:06d}.{frame_format}"
\* (saved_count stays below 10 here)
FrameFilename(video_name, saved) ==
  video_name \o "_skipped_30_frame_00000" \o ToString(saved) \o ".jpg"

\* lines 73, 82: {'success': False, 'error': ...}; it has no 'frames_extracted'
FailedExtraction(idx, why) ==
  [success |-> FALSE, video_name |-> VideoNames[idx], frames_extracted |-> 0, error |-> why]

InitBatchVars ==
  /\ \E n \in 0..MaxBatch : video_files \in [1..n -> VideoFileChoices]
  /\ organize_by_video \in BOOLEAN
  /\ bPc = "start"
  /\ bIdx = 1
  /\ batch_results = <<>>
  /\ frame_dirs = {}
  /\ frame_files = {}
  /\ video = <<>>
  /\ frame_interval = ForcedInterval
  /\ max_frames \in 0..MaxCap
  /\ ePc = "idle"
  /\ frame_count = 0
  /\ saved_count = 0
  /\ metadata = <<>>
  /\ written = <<>>

\* lines 203-214: no video found -> []; else the loop is entered
BatchStart ==
  /\ bPc = "start"
  /\ bPc' = IF video_files = <<>> THEN "done" ELSE "next"
  /\ frame_interval' = ForcedInterval
  /\ bIdx' = 1
  /\ batch_results' = <<>>
  /\ UNCHANGED <<video_files, organize_by_video, frame_dirs, frame_files>>
  /\ UNCHANGED <<video, max_frames, ePc, frame_count, saved_count, metadata, written>>
  /\ UNCHANGED notBatchVars

\* lines 71-73 inside the loop: the path does not exist
BatchMissing ==
  /\ bPc = "next" /\ bIdx <= Len(video_files)
  /\ video_files[bIdx].state = "missing"
  /\ batch_results' = Append(batch_results, FailedExtraction(bIdx, "Video file not found"))
  /\ bIdx' = ContinueAfterFailure(bIdx, Len(video_files))
  /\ UNCHANGED <<video_files, organize_by_video, bPc, frame_dirs, frame_files>>
  /\ UNCHANGED extractVars
  /\ UNCHANGED notBatchVars

\* lines 76-82 inside the loop: the directory is made, the capture does not open
BatchUnopenable ==
  /\ bPc = "next" /\ bIdx <= Len(video_files)
  /\ video_files[bIdx].state = "unopenable"
  /\ frame_dirs' = frame_dirs \cup {OutputDirOf(bIdx)}
  /\ batch_results' = Append(batch_results, FailedExtraction(bIdx, "Failed to open video"))
  /\ bIdx' = ContinueAfterFailure(bIdx, Len(video_files))
  /\ UNCHANGED <<video_files, organize_by_video, bPc, frame_files>>
  /\ UNCHANGED extractVars
  /\ UNCHANGED notBatchVars

\* lines 216-232, 71-80: extract_frames_from_video is entered for a video that opens
BatchOpen ==
  /\ bPc = "next" /\ bIdx <= Len(video_files)
  /\ video_files[bIdx].state = "ok"
  /\ frame_dirs' = frame_dirs \cup {OutputDirOf(bIdx)}
  /\ video' = [k \in 1..video_files[bIdx].frames |-> "dark"]
  /\ written' = <<>>
  /\ ePc' = "start"
  /\ bPc' = "extracting"
  /\ UNCHANGED <<video_files, organize_by_video, bIdx, batch_results, frame_files>>
  /\ UNCHANGED <<frame_interval, max_frames, frame_count, saved_count, metadata>>
  /\ UNCHANGED notBatchVars

\* lines 146-157, 233: the call returns and its result is appended
BatchCollect ==
  /\ bPc = "extracting" /\ ePc = "done"
  /\ batch_results' = Append(batch_results,
                             [success |-> TRUE, video_name |-> VideoNames[bIdx],
                              frames_extracted |-> saved_count, error |-> ""])
  /\ frame_files' = frame_files \cup
                      {<<OutputDirOf(bIdx), FrameFilename(VideoNames[bIdx], metadata[k].saved_index)>> :
                         k \in DOMAIN metadata}
  /\ bIdx' = bIdx + 1
  /\ bPc' = "next"
  /\ ePc' = "idle"
  /\ UNCHANGED <<video_files, organize_by_video, frame_dirs>>
  /\ UNCHANGED <<video, frame_interval, max_frames, frame_count, saved_count, metadata, written>>
  /\ UNCHANGED notBatchVars

\* line 245
BatchReturn ==
  /\ bPc = "next" /\ bIdx > Len(video_files)
  /\ bPc' = "done"
  /\ UNCHANGED <<video_files, organize_by_video, bIdx, batch_results, frame_dirs, frame_files>>
  /\ UNCHANGED extractVars
  /\ UNCHANGED notBatchVars

NextBatch ==
  \/ BatchStart
  \/ BatchMissing
  \/ BatchUnopenable
  \/ BatchOpen
  \/ ExtractOpen
  \/ ReadEnd
  \/ ReadSkip
  \/ ReadCapBreak
  \/ ReadSave
  \/ BatchCollect
  \/ BatchReturn

\* ========================================================================
\* QualityFilter
\* ========================================================================
\* A frame is a one-row grayscale image of two pixels with levels 0..2; a
\* metric frame downsized by _resize_for_metrics has one pixel.  Metrics are
\* kept as integers: brightness is twice the mean level, similarity is eight
\* times 1 - min(mse, 1) with levels normalised by the top level 2.
FilterVideos == {"clip_a", "clip_b"}

\* what cv2.imread returns for a readable file (None for an unreadable one)
Images == {<<0, 0>>, <<2, 2>>, <<1, 1>>, <<0, 1>>, <<0, 2>>, <<2, 0>>}

DefaultConfig ==
  [enabled |-> TRUE, min_brightness |-> 1, max_brightness |-> 3, min_sharpness |-> 4,
   skip_similar |-> TRUE, similarity_threshold |-> 6,
   detect_motion |-> TRUE, min_motion_score |-> 1,
   fast_metrics_enabled |-> TRUE, fast_metrics_max_dim |-> 640]

Configs ==
  { DefaultConfig,
    [DefaultConfig EXCEPT !.detect_motion = FALSE],
    [DefaultConfig EXCEPT !.skip_similar = FALSE],
    [DefaultConfig EXCEPT !.enabled = FALSE],
    [DefaultConfig EXCEPT !.fast_metrics_max_dim = 1, !.min_brightness = 0,
                          !.max_brightness = 4, !.min_sharpness = 0] }

RECURSIVE SumSeq(_)
SumSeq(s) == IF s = <<>> THEN 0 ELSE Head(s) + SumSeq(Tail(s))

\* _resize_for_metrics: a frame whose larger side exceeds fast_metrics_max_dim
\* is scaled down (INTER_AREA: the mean of the covered pixels, rounded to the
\* nearest level, halves to even); a two-pixel row scaled by 1/2 is one pixel
ResizeForMetrics(frame) ==
  IF ~cfg.fast_metrics_enabled \/ frame = None THEN frame
  ELSE IF Len(frame) <= cfg.fast_metrics_max_dim \/ Len(frame) = 0 THEN frame
  ELSE LET t == SumSeq(frame)
       IN <<IF t % 2 = 0 THEN t \div 2
            ELSE IF ((t - 1) \div 2) % 2 = 0 THEN (t - 1) \div 2 ELSE (t + 1) \div 2>>

\* calculate_brightness: np.mean(gray), times two
CalculateBrightness(frame) == (2 * SumSeq(frame)) \div Len(frame)

\* calculate_sharpness: variance of the Laplacian (border reflected): for the
\* row (a, b) the response is (2(b-a), 2(a-b)), variance 4(a-b)^2; for one
\* pixel it is 0
CalculateSharpness(frame) ==
  IF Len(frame) = 2 THEN 4 * (frame[1] - frame[2]) * (frame[1] - frame[2]) ELSE 0

\* calculate_motion_score: np.sum(cv2.absdiff(gray1, gray2)), shapes equal
CalculateMotionScore(frame, previous) ==
  SumSeq([k \in DOMAIN frame |-> Abs(frame[k] - previous[k])])

\* calculate_similarity without scikit-image: 1 - min(mse, 1), mse the mean of
\* the squared differences of the normalised levels; times eight
CalculateSimilarity(frame1, frame2) ==
  LET sq == SumSeq([k \in DOMAIN frame1 |-> (frame1[k] - frame2[k]) * (frame1[k] - frame2[k])])
      mse8 == (2 * sq) \div Len(frame1)
  IN 8 - Min(mse8, 8)

Rejected(m) == [ok |-> FALSE, metrics |-> m, stashed |-> FALSE, metric_frame |-> None]

\* is_quality_frame with every metric computed before the first test
IsQualityFrameEager(frame, previous) ==
  IF ~cfg.enabled
    THEN [ok |-> TRUE, metrics |-> <<>>, stashed |-> FALSE, metric_frame |-> None]
  ELSE
    LET metric_frame == ResizeForMetrics(frame)
        brightness == CalculateBrightness(metric_frame)
        sharpness == CalculateSharpness(metric_frame)
        m2 == <<<<"brightness", brightness>>, <<"sharpness", sharpness>>>>
        has == previous # None
        motion_score == CalculateMotionScore(metric_frame, previous)
        similarity == CalculateSimilarity(metric_frame, previous)
        m3 == IF cfg.detect_motion /\ has
                THEN Append(m2, <<"motion_score", motion_score>>) ELSE m2
        m4 == IF cfg.skip_similar /\ has THEN Append(m3, <<"similarity", similarity>>) ELSE m3
    IN IF \/ brightness < cfg.min_brightness \/ brightness > cfg.max_brightness
          \/ sharpness < cfg.min_sharpness
          \/ (cfg.detect_motion /\ has /\ motion_score < cfg.min_motion_score)
          \/ (cfg.skip_similar /\ has /\ similarity > cfg.similarity_threshold)
         THEN Rejected(m4)
       ELSE [ok |-> TRUE, metrics |-> m4, stashed |-> TRUE, metric_frame |-> metric_frame]

\* is_quality_frame(frame): ok and metrics are the returned pair; stashed says
\* whether self._last_metric_frame was set, and to which metric frame
IsQualityFrame(frame, previous) ==
  IF ~cfg.enabled
    THEN [ok |-> TRUE, metrics |-> <<>>, stashed |-> FALSE, metric_frame |-> None]
  ELSE
    LET metric_frame == ResizeForMetrics(frame)
        brightness == CalculateBrightness(metric_frame)
        m1 == <<<<"brightness", brightness>>>>
    IN IF brightness < cfg.min_brightness \/ brightness > cfg.max_brightness
         THEN Rejected(m1)
       ELSE
         LET sharpness == CalculateSharpness(metric_frame)
             m2 == Append(m1, <<"sharpness", sharpness>>)
         IN IF sharpness < cfg.min_sharpness
              THEN Rejected(m2)
            ELSE
              LET checkMotion == cfg.detect_motion /\ previous # None
                  motion_score == CalculateMotionScore(metric_frame, previous)
                  m3 == IF checkMotion THEN Append(m2, <<"motion_score", motion_score>>) ELSE m2
              IN IF checkMotion /\ motion_score < cfg.min_motion_score
                   THEN Rejected(m3)
                 ELSE
                   LET checkSimilar == cfg.skip_similar /\ previous # None
                       similarity == CalculateSimilarity(metric_frame, previous)
                       m4 == IF checkSimilar
                               THEN Append(m3, <<"similarity", similarity>>) ELSE m3
                   IN IF checkSimilar /\ similarity > cfg.similarity_threshold
                        THEN Rejected(m4)
                      ELSE [ok |-> TRUE, metrics |-> m4, stashed |-> TRUE,
                            metric_frame |-> metric_frame]

\* the reset left out: the reference of the previous pass is kept
KeepPrevious(previous) == previous

\* filter_frames, lines 299-301: self.previous_frame = self.previous_metric_frame = None
ResetPrevious(previous) == None

\* filter_frames_batch, lines 387-389: the same reset, before each folder
BatchResetPrevious(previous) == None

\* the reference moved to the candidate although it was rejected
ReferenceFollowsCandidate(previous, candidate) == candidate

\* filter_frames, lines 341-342: a rejected frame only raises rejected_count
ReferenceAfterReject(previous, candidate) == previous

NoResult == [success |-> FALSE, total_frames |-> 0, quality_frames |-> 0, rejected_frames |-> 0]
\* a result that reports every frame that was not accepted as rejected
FramesResultByDifference(n_files, quality, rejected) ==
  [success |-> TRUE, total_frames |-> n_files, quality_frames |-> quality,
   rejected_frames |-> n_files - quality]
\* lines 347-355: the returned dictionary
FramesResult(n_files, quality, rejected) ==
  [success |-> TRUE, total_frames |-> n_files, quality_frames |-> quality,
   rejected_frames |-> rejected]

InitFilterVars ==
  /\ cfg \in Configs
  /\ mode \in {"batch", "direct"}
  /\ fPc = "idle"
  /\ started = 0
  /\ image_files = 0
  /\ frames = <<>>
  /\ previous_frame = None
  /\ previous_metric_frame = None
  /\ last_metric_frame = None
  /\ quality_count = 0
  /\ rejected_count = 0
  /\ quality_frames_info = <<>>
  /\ out_files = <<>>
  /\ is_quality = FALSE
  /\ metrics = <<>>
  /\ result = NoResult
  /\ results = <<>>

\* the references as the caller of filter_frames leaves them
EnteringPrevious(previous) == IF mode = "batch" THEN BatchResetPrevious(previous) ELSE previous

\* filter_frames on a folder without image files, lines 293-295: returns at
\* once (before the reset of lines 299-301), with no rejected_frames key
FilterEmptyFolder ==
  /\ fPc = "idle"
  /\ started < Cardinality(FilterVideos)
  /\ started' = started + 1
  /\ previous_frame' = EnteringPrevious(previous_frame)
  /\ previous_metric_frame' = EnteringPrevious(previous_metric_frame)
  /\ result' = [success |-> TRUE, total_frames |-> 0, quality_frames |-> 0,
                rejected_frames |-> 0]
  /\ results' = IF mode = "batch" THEN Append(results, result') ELSE results
  /\ UNCHANGED <<cfg, mode, fPc, image_files, frames, last_metric_frame, quality_count,
                 rejected_count, quality_frames_info, out_files, is_quality, metrics>>
  /\ UNCHANGED notFilterVars

\* filter_frames on a folder with image files, lines 297-306: reset, counters to zero
FilterBegin ==
  /\ fPc = "idle"
  /\ started < Cardinality(FilterVideos)
  /\ started' = started + 1
  /\ \E n \in 1..MaxFiles : image_files' = n
  /\ previous_frame' = ResetPrevious(EnteringPrevious(previous_frame))
  /\ previous_metric_frame' = ResetPrevious(EnteringPrevious(previous_metric_frame))
  /\ frames' = <<>>
  /\ quality_count' = 0
  /\ rejected_count' = 0
  /\ quality_frames_info' = <<>>
  /\ out_files' = <<>>
  /\ is_quality' = FALSE
  /\ metrics' = <<>>
  /\ result' = NoResult
  /\ fPc' = "loop"
  /\ UNCHANGED <<cfg, mode, last_metric_frame, results>>
  /\ UNCHANGED notFilterVars

\* lines 310-314: the file cannot be read
FilterUnreadable ==
  /\ fPc = "loop" /\ Len(frames) < image_files
  /\ frames' = Append(frames, None)
  /\ UNCHANGED <<cfg, mode, fPc, started, image_files, previous_frame, previous_metric_frame,
                 last_metric_frame, quality_count, rejected_count, quality_frames_info,
                 out_files, is_quality, metrics, result, results>>
  /\ UNCHANGED notFilterVars

\* lines 317-340: the frame passes; it is written and becomes the reference
FilterAccept ==
  /\ fPc = "loop" /\ Len(frames) < image_files
  /\ \E frame \in Images :
       LET r == IsQualityFrame(frame, previous_metric_frame)
           stash == IF r.stashed THEN r.metric_frame ELSE last_metric_frame
       IN /\ r.ok
          /\ frames' = Append(frames, frame)
          /\ is_quality' = r.ok
          /\ metrics' = r.metrics
          /\ last_metric_frame' = stash
          /\ out_files' = Append(out_files, frame)
          /\ quality_frames_info' =
               Append(quality_frames_info, [file |-> Len(frames) + 1, metrics |-> r.metrics])
          /\ quality_count' = quality_count + 1
          /\ previous_frame' = frame
          /\ previous_metric_frame' = IF stash # None THEN stash ELSE previous_metric_frame
  /\ UNCHANGED <<cfg, mode, fPc, started, image_files, rejected_count, result, results>>
  /\ UNCHANGED notFilterVars

\* lines 317, 341-342: the frame fails a check
FilterReject ==
  /\ fPc = "loop" /\ Len(frames) < image_files
  /\ \E frame \in Images :
       LET r == IsQualityFrame(frame, previous_metric_frame)
       IN /\ ~r.ok
          /\ frames' = Append(frames, frame)
          /\ is_quality' = r.ok
          /\ metrics' = r.metrics
          /\ rejected_count' = rejected_count + 1
          /\ previous_frame' = ReferenceAfterReject(previous_frame, frame)
          /\ previous_metric_frame' =
               ReferenceAfterReject(previous_metric_frame, ResizeForMetrics(frame))
  /\ UNCHANGED <<cfg, mode, fPc, started, image_files, last_metric_frame, quality_count,
                 quality_frames_info, out_files, result, results>>
  /\ UNCHANGED notFilterVars

\* lines 344-355 (and 396 in a batch): the call returns its counts
FilterReturn ==
  /\ fPc = "loop" /\ Len(frames) = image_files
  /\ result' = FramesResult(image_files, quality_count, rejected_count)
  /\ results' = IF mode = "batch" THEN Append(results, result') ELSE results
  /\ fPc' = "idle"
  /\ UNCHANGED <<cfg, mode, started, image_files, frames, previous_frame,
                 previous_metric_frame, last_metric_frame, quality_count, rejected_count,
                 quality_frames_info, out_files, is_quality, metrics>>
  /\ UNCHANGED notFilterVars

NextFilter ==
  \/ FilterEmptyFolder
  \/ FilterBegin
  \/ FilterUnreadable
  \/ FilterAccept
  \/ FilterReject
  \/ FilterReturn

\* ========================================================================
\* DataAugmentor: the transforms and apply_augmentations
\* ========================================================================
\* h, w = image.shape[:2]: the source image is ImageW x ImageH pixels
ImageW == 4
ImageH == 2

\* A normalised coordinate c is held as the integer c * Den
Den == 40

\* zoom factors as <<numerator, denominator>>: 0.9, 1.0, 1.1, 1.5
ZoomFactors == {<<9, 10>>, <<1, 1>>, <<11, 10>>, <<3, 2>>}

\* random.randint(brightness_range[0], brightness_range[1])
Deltas == {-30, 30}

\* the annotations: a centred box, a box on the left edge of the z = 1.5 crop,
\* a box in the corner, a box on the right border, a box as large as the
\* image, a box low in the image
Boxes ==
  {<<0, 20, 20, 10, 10>>, <<0, 10, 20, 10, 10>>, <<1, 0, 0, 10, 10>>,
   <<0, 40, 30, 20, 20>>, <<1, 20, 20, 40, 40>>, <<0, 30, 30, 10, 20>>}

BoxLists == UNION {[1..n -> Boxes] : n \in 0..MaxBoxes}

\* the x coordinate left where it is
KeepX(x_center) == x_center

\* line 100: new_x = 1.0 - x_center
FlipX(x_center) == Den - x_center

\* a flip that also hands the boxes back in reverse order
FlipReversed(bs) ==
  [k \in DOMAIN bs |->
     LET b == bs[Len(bs) + 1 - k] IN <<b[1], FlipX(b[2]), b[3], b[4], b[5]>>]

\* horizontal_flip, lines 97-103 (the annotation)
HorizontalFlip(bs) ==
  [k \in DOMAIN bs |-> <<bs[k][1], FlipX(bs[k][2]), bs[k][3], bs[k][4], bs[k][5]>>]

\* rotate_image, line 131: bboxes.copy()
RotateImage(bs) == bs

\* int(size / zoom_factor)
CropSize(size, z) == (size * z[2]) \div z[1]

\* top = (h - new_h) // 2, left = (w - new_w) // 2
CropOffset(size, z) == (size - CropSize(size, z)) \div 2

\* lines 164-165, 170-171: the centre in pixels after crop and scale, times Den
NewCentre(c, size, z) == ((c * size - CropOffset(size, z) * Den) * z[1]) \div z[2]

\* lines 166-167, 172-173: the extent in pixels after scaling, times Den
NewExtent(e, size, z) == (e * size * z[1]) \div z[2]

\* the horizontal test alone
VisibleX(new_x, new_y) == 0 <= new_x /\ new_x <= ImageW * Den

\* line 176: 0 <= new_x <= w and 0 <= new_y <= h
Visible(new_x, new_y) ==
  /\ 0 <= new_x /\ new_x <= ImageW * Den
  /\ 0 <= new_y /\ new_y <= ImageH * Den

\* lines 159-183: the boxes of a zoom in
RECURSIVE ZoomIn(_, _)
ZoomIn(z, bs) ==
  IF bs = <<>> THEN <<>>
  ELSE LET b == Head(bs)
           new_x == NewCentre(b[2], ImageW, z)
           new_y == NewCentre(b[3], ImageH, z)
           new_w == NewExtent(b[4], ImageW, z)
           new_h == NewExtent(b[5], ImageH, z)
       IN (IF Visible(new_x, new_y)
             THEN <<(<<b[1], new_x \div ImageW, new_y \div ImageH,
                       new_w \div ImageW, new_h \div ImageH>>)>>
             ELSE <<>>) \o ZoomIn(z, Tail(bs))

\* zoom_image, lines 149-189 (the annotation)
ZoomImage(z, bs) == IF z[1] > z[2] THEN ZoomIn(z, bs) ELSE bs

\* ---- the box transforms called directly, one after another ----
InitCallsVars ==
  /\ bboxes \in BoxLists
  /\ aug_bboxes = bboxes
  /\ aug_image = <<>>
  /\ aug_desc = <<>>
  /\ vPc = "calls"
  /\ augmentation_id = 0
  /\ aug_name = ""

\* horizontal_flip(image, bboxes) on the result of the previous call
CallHorizontalFlip ==
  /\ vPc = "calls" /\ Len(aug_image) < MaxCalls
  /\ aug_bboxes' = HorizontalFlip(aug_bboxes)
  /\ aug_image' = Append(aug_image, <<"flip", <<1, 1>>>>)
  /\ UNCHANGED <<bboxes, aug_desc, vPc, augmentation_id, aug_name>>
  /\ UNCHANGED notVariantVars

\* zoom_image(image, zoom_factor, bboxes) on the result of the previous call
\* (one zoom in a sequence of calls: the coordinates stay on the Den grid)
CallZoomImage ==
  /\ vPc = "calls" /\ Len(aug_image) < MaxCalls
  /\ \A k \in DOMAIN aug_image : aug_image[k][1] # "zoom"
  /\ \E z \in ZoomFactors :
       /\ aug_bboxes' = ZoomImage(z, aug_bboxes)
       /\ aug_image' = Append(aug_image, <<"zoom", z>>)
  /\ UNCHANGED <<bboxes, aug_desc, vPc, augmentation_id, aug_name>>
  /\ UNCHANGED notVariantVars

NextCalls ==
  \/ CallHorizontalFlip
  \/ CallZoomImage

\* ---- apply_augmentations, lines 205-262 ----
\* random.uniform(contrast_range[0], contrast_range[1])
ContrastFactors == {<<4, 5>>}

\* random.uniform(rotation_range[0], rotation_range[1]), in degrees
Angles == {5}

\* the augmentation_id values augment_dataset hands in: aug_id + 1
AugmentationIds == 1..2

\* f"bright{delta:+d}"
BrightTag(delta) == "bright" \o (IF delta >= 0 THEN "+" ELSE "") \o ToString(delta)

\* f"contrast{factor:.2f}"
ContrastTag(factor) == IF factor = <<4, 5>> THEN "contrast0.80" ELSE "contrast1.00"

\* f"rot{angle:.1f}"
RotTag(angle) == "rot" \o ToString(angle) \o ".0"

\* f"zoom{zoom_factor:.2f}"
ZoomTag(z) ==
  IF z = <<9, 10>> THEN "zoom0.90"
  ELSE IF z = <<11, 10>> THEN "zoom1.10"
  ELSE IF z = <<3, 2>> THEN "zoom1.50"
  ELSE "zoom1.00"

\* "_".join(aug_desc)
RECURSIVE JoinTags(_)
JoinTags(desc) ==
  IF desc = <<>> THEN ""
  ELSE IF Len(desc) = 1 THEN desc[1]
  ELSE desc[1] \o "_" \o JoinTags(Tail(desc))

\* the descriptor without the variant's number
AugNameTagsOnly(id, desc) == JoinTags(desc)

\* line 260
AugName(id, desc) ==
  IF desc # <<>> THEN "aug" \o ToString(id) \o "_" \o JoinTags(desc)
  ELSE "aug" \o ToString(id)

\* the if blocks of lines 227-258 in another order: rotation before the flip
TransformsRotationFirst ==
  <<"brightness", "contrast", "rotation", "flip", "zoom", "noise", "name">>

\* the if blocks of lines 227-258, then line 260
Transforms == <<"brightness", "contrast", "flip", "rotation", "zoom", "noise", "name">>

NextTransformRotationFirst(t) ==
  TransformsRotationFirst[1 + CHOOSE k \in DOMAIN TransformsRotationFirst :
                                TransformsRotationFirst[k] = t]

\* the block that follows block t
NextTransform(t) == Transforms[1 + CHOOSE k \in DOMAIN Transforms : Transforms[k] = t]

InitVariantVars ==
  /\ bboxes \in BoxLists
  /\ aug_bboxes = bboxes
  /\ aug_image = <<>>
  /\ aug_desc = <<>>
  /\ vPc = Transforms[1]
  /\ augmentation_id \in AugmentationIds
  /\ aug_name = ""

\* lines 227-230
StepBrightness ==
  /\ vPc = "brightness"
  /\ \E active \in BOOLEAN, delta \in Deltas :
       IF active
         THEN /\ aug_image' = Append(aug_image, <<"brightness", <<delta, 1>>>>)
              /\ aug_desc' = Append(aug_desc, BrightTag(delta))
         ELSE UNCHANGED <<aug_image, aug_desc>>
  /\ vPc' = NextTransform(vPc)
  /\ UNCHANGED <<bboxes, aug_bboxes, augmentation_id, aug_name>>
  /\ UNCHANGED notVariantVars

\* lines 233-236
StepContrast ==
  /\ vPc = "contrast"
  /\ \E active \in BOOLEAN, factor \in ContrastFactors :
       IF active
         THEN /\ aug_image' = Append(aug_image, <<"contrast", factor>>)
              /\ aug_desc' = Append(aug_desc, ContrastTag(factor))
         ELSE UNCHANGED <<aug_image, aug_desc>>
  /\ vPc' = NextTransform(vPc)
  /\ UNCHANGED <<bboxes, aug_bboxes, augmentation_id, aug_name>>
  /\ UNCHANGED notVariantVars

\* lines 239-241
StepFlip ==
  /\ vPc = "flip"
  /\ \E active \in BOOLEAN :
       IF active
         THEN /\ aug_image' = Append(aug_image, <<"flip", <<1, 1>>>>)
              /\ aug_bboxes' = HorizontalFlip(aug_bboxes)
              /\ aug_desc' = Append(aug_desc, "hflip")
         ELSE UNCHANGED <<aug_image, aug_bboxes, aug_desc>>
  /\ vPc' = NextTransform(vPc)
  /\ UNCHANGED <<bboxes, augmentation_id, aug_name>>
  /\ UNCHANGED notVariantVars

\* lines 244-247
StepRotation ==
  /\ vPc = "rotation"
  /\ \E active \in BOOLEAN, angle \in Angles :
       IF active
         THEN /\ aug_image' = Append(aug_image, <<"rotation", <<angle, 1>>>>)
              /\ aug_bboxes' = RotateImage(aug_bboxes)
              /\ aug_desc' = Append(aug_desc, RotTag(angle))
         ELSE UNCHANGED <<aug_image, aug_bboxes, aug_desc>>
  /\ vPc' = NextTransform(vPc)
  /\ UNCHANGED <<bboxes, augmentation_id, aug_name>>
  /\ UNCHANGED notVariantVars

\* lines 250-253
StepZoom ==
  /\ vPc = "zoom"
  /\ \E active \in BOOLEAN, zoom_factor \in ZoomFactors :
       IF active
         THEN /\ aug_image' = Append(aug_image, <<"zoom", zoom_factor>>)
              /\ aug_bboxes' = ZoomImage(zoom_factor, aug_bboxes)
              /\ aug_desc' = Append(aug_desc, ZoomTag(zoom_factor))
         ELSE UNCHANGED <<aug_image, aug_bboxes, aug_desc>>
  /\ vPc' = NextTransform(vPc)
  /\ UNCHANGED <<bboxes, augmentation_id, aug_name>>
  /\ UNCHANGED notVariantVars

\* lines 256-258
StepNoise ==
  /\ vPc = "noise"
  /\ \E active \in BOOLEAN :
       IF active
         THEN /\ aug_image' = Append(aug_image, <<"noise", <<1, 1>>>>)
              /\ aug_desc' = Append(aug_desc, "noise")
         ELSE UNCHANGED <<aug_image, aug_desc>>
  /\ vPc' = NextTransform(vPc)
  /\ UNCHANGED <<bboxes, aug_bboxes, augmentation_id, aug_name>>
  /\ UNCHANGED notVariantVars

\* lines 260-262
VariantReturn ==
  /\ vPc = "name"
  /\ aug_name' = AugName(augmentation_id, aug_desc)
  /\ vPc' = "returned"
  /\ UNCHANGED <<bboxes, aug_bboxes, aug_image, aug_desc, augmentation_id>>
  /\ UNCHANGED notVariantVars

NextVariant ==
  \/ StepBrightness
  \/ StepContrast
  \/ StepFlip
  \/ StepRotation
  \/ StepZoom
  \/ StepNoise
  \/ VariantReturn

\* ---- augment_dataset, lines 303-416 ----
\* The image files that can lie under input_dir, <<folder, stem, extension>>:
\* a frame saved in two formats, a frame named like a variant of it, and a
\* frame of another video
ImageFiles ==
  {<<"v1", "f", ".jpg">>, <<"v1", "f", ".png">>, <<"v1", "f_aug1", ".jpg">>,
   <<"v2", "f", ".jpg">>}

\* the extensions in the order augment_dataset globs them (line 328)
ExtOrder(ext) == IF ext = ".jpg" THEN 1 ELSE IF ext = ".jpeg" THEN 2 ELSE 3

\* img_path.with_suffix('.txt'): the annotation lying beside an image
AnnotationOf(folder, stem) ==
  IF folder = "v2" THEN <<(<<0, 20, 20, 10, 10>>), (<<0, 40, 30, 20, 20>>)>>
  ELSE IF stem = "f" THEN <<(<<0, 30, 30, 10, 20>>)>>
  ELSE <<>>

\* what the random draws of one apply_augmentations call can be: nothing
\* activated, or a flip and a zoom by 1.5
NoDraw ==
  [brightness |-> FALSE, delta |-> 30, contrast |-> FALSE, factor |-> <<4, 5>>,
   flip |-> FALSE, rotation |-> FALSE, angle |-> 5, zoom |-> FALSE,
   zoom_factor |-> <<1, 1>>, noise |-> FALSE]

VariantDraws == {NoDraw, [NoDraw EXCEPT !.flip = TRUE, !.zoom = TRUE, !.zoom_factor = <<3, 2>>]}

\* apply_augmentations(image, bboxes, augmentation_id) under the draws d:
\* the annotation and the descriptor it returns
ApplyAugmentations(bs, id, d) ==
  LET flipped == IF d.flip THEN HorizontalFlip(bs) ELSE bs
      rotated == IF d.rotation THEN RotateImage(flipped) ELSE flipped
      zoomed == IF d.zoom THEN ZoomImage(d.zoom_factor, rotated) ELSE rotated
      desc == (IF d.brightness THEN <<BrightTag(d.delta)>> ELSE <<>>)
              \o (IF d.contrast THEN <<ContrastTag(d.factor)>> ELSE <<>>)
              \o (IF d.flip THEN <<"hflip">> ELSE <<>>)
              \o (IF d.rotation THEN <<RotTag(d.angle)>> ELSE <<>>)
              \o (IF d.zoom THEN <<ZoomTag(d.zoom_factor)>> ELSE <<>>)
              \o (IF d.noise THEN <<"noise">> ELSE <<>>)
  IN [aug_bboxes |-> zoomed, aug_desc |-> AugName(id, desc)]

\* output_subfolder / f"{name}.jpg"
OutputPath(folder, name) == folder \o "/" \o name \o ".jpg"

NoAugResult ==
  [returned |-> FALSE, success |-> FALSE, original_count |-> 0, augmented_count |-> 0,
   total_count |-> 0]

\* lines 322, 335: {'success': False, 'reason': ...}
FailedAugResult ==
  [returned |-> TRUE, success |-> FALSE, original_count |-> 0, augmented_count |-> 0,
   total_count |-> 0]

\* an imread that always yields an image
DecodedAlways(f) == TRUE
\* lines 346-347: cv2.imread(str(img_path)) is not None
Decoded(f) == f.readable
\* lines 353-355: relative_folder = img_path.relative_to(input_path).parent,
\* output_subfolder = output_path / relative_folder
OutputSubfolder(f) == f.folder

InitAugmentVars ==
  /\ enabled \in BOOLEAN
  /\ aug_per_image \in 0..MaxAug
  /\ \E n \in 0..MaxImages :
       \E fs \in [1..n -> ImageFiles], rd \in [1..n -> BOOLEAN] :
         /\ \A a, b \in 1..n : a < b => fs[a] # fs[b] /\ ExtOrder(fs[a][3]) <= ExtOrder(fs[b][3])
         /\ aug_files = [k \in 1..n |-> [folder |-> fs[k][1], stem |-> fs[k][2],
                                          ext |-> fs[k][3], readable |-> rd[k]]]
  /\ gPc = "start"
  /\ gIdx = 1
  /\ aug_id = 0
  /\ total_original = 0
  /\ total_augmented = 0
  /\ aug_written = <<>>
  /\ aug_result = NoAugResult

\* lines 320-343: disabled, or no image found, or the loop is entered
AugmentStart ==
  /\ gPc = "start"
  /\ IF ~enabled \/ aug_files = <<>>
       THEN gPc' = "done" /\ aug_result' = FailedAugResult
       ELSE gPc' = "loop" /\ aug_result' = aug_result
  /\ gIdx' = 1
  /\ total_original' = 0
  /\ total_augmented' = 0
  /\ UNCHANGED <<enabled, aug_per_image, aug_files, aug_id, aug_written>>
  /\ UNCHANGED notAugmentVars

\* lines 347-350: cv2.imread returned None
AugmentUnreadable ==
  /\ gPc = "loop" /\ gIdx <= Len(aug_files)
  /\ ~Decoded(aug_files[gIdx])
  /\ gIdx' = gIdx + 1
  /\ UNCHANGED <<enabled, aug_per_image, aug_files, gPc, aug_id, total_original,
                 total_augmented, aug_written, aug_result>>
  /\ UNCHANGED notAugmentVars

\* lines 352-377: the original is written under its stem
AugmentOriginal ==
  /\ gPc = "loop" /\ gIdx <= Len(aug_files)
  /\ Decoded(aug_files[gIdx])
  /\ LET f == aug_files[gIdx]
     IN aug_written' = Append(aug_written,
                              [path |-> OutputPath(OutputSubfolder(f), f.stem),
                               subfolder |-> OutputSubfolder(f), src |-> gIdx, variant |-> 0,
                               boxes |-> AnnotationOf(f.folder, f.stem)])
  /\ total_original' = total_original + 1
  /\ aug_id' = 0
  /\ gPc' = "variants"
  /\ UNCHANGED <<enabled, aug_per_image, aug_files, gIdx, total_augmented, aug_result>>
  /\ UNCHANGED notAugmentVars

\* lines 380-395: one pass of `for aug_id in range(self.aug_per_image)`
AugmentVariant ==
  /\ gPc = "variants" /\ aug_id < aug_per_image
  /\ \E d \in VariantDraws :
       LET f == aug_files[gIdx]
           v == ApplyAugmentations(AnnotationOf(f.folder, f.stem), aug_id + 1, d)
       IN aug_written' = Append(aug_written,
                                [path |-> OutputPath(OutputSubfolder(f),
                                                     f.stem \o "_" \o v.aug_desc),
                                 subfolder |-> OutputSubfolder(f),
                                 src |-> gIdx, variant |-> aug_id + 1, boxes |-> v.aug_bboxes])
  /\ total_augmented' = total_augmented + 1
  /\ aug_id' = aug_id + 1
  /\ UNCHANGED <<enabled, aug_per_image, aug_files, gPc, gIdx, total_original, aug_result>>
  /\ UNCHANGED notAugmentVars

\* the range is exhausted: the next image
AugmentNextImage ==
  /\ gPc = "variants" /\ aug_id >= aug_per_image
  /\ gIdx' = gIdx + 1
  /\ gPc' = "loop"
  /\ UNCHANGED <<enabled, aug_per_image, aug_files, aug_id, total_original, total_augmented,
                 aug_written, aug_result>>
  /\ UNCHANGED notAugmentVars

\* lines 410-416
AugmentReturn ==
  /\ gPc = "loop" /\ gIdx > Len(aug_files)
  /\ aug_result' = [returned |-> TRUE, success |-> TRUE, original_count |-> total_original,
                    augmented_count |-> total_augmented,
                    total_count |-> total_original + total_augmented]
  /\ gPc' = "done"
  /\ UNCHANGED <<enabled, aug_per_image, aug_files, gIdx, aug_id, total_original,
                 total_augmented, aug_written>>
  /\ UNCHANGED notAugmentVars

NextAugment ==
  \/ AugmentStart
  \/ AugmentUnreadable
  \/ AugmentOriginal
  \/ AugmentVariant
  \/ AugmentNextImage
  \/ AugmentReturn

\* ========================================================================
\* separate_images_by_ball (seperation/separate_images_by_ball.py)
\* ========================================================================
\* Image names of the input folder, in the order sorted(folder.iterdir())
\* yields them ("." sorts before "_").
ImageNames ==
  << [stem |-> "f", suffix |-> ".jpg"],
     [stem |-> "f_1", suffix |-> ".jpg"],
     [stem |-> "g", suffix |-> ".jpg"] >>

\* Class table of the detector: class id -> class name, as characters.
ClassNames ==
  [c \in 0..2 |->
     CASE c = 0 -> <<"B", "a", "s", "k", "e", "t", "b", "a", "l", "l">>
       [] c = 1 -> <<"P", "l", "a", "y", "e", "r">>
       [] c = 2 -> <<"B", "a", "s", "k", "e", "t">>]
\* A model object without a usable `names` attribute.
NoNames == [c \in {} |-> <<>>]

\* str.lower() on the characters that occur in ClassNames.
Lower(nm) ==
  [k \in 1..Len(nm) |-> CASE nm[k] = "B" -> "b" [] nm[k] = "P" -> "p" [] OTHER -> nm[k]]
\* `kw in nm` for two strings.
Contains(nm, kw) ==
  \E k \in 1..(Len(nm) - Len(kw) + 1) : SubSeq(nm, k, k + Len(kw) - 1) = kw
Keywords ==
  { <<"b", "a", "l", "l">>, <<"b", "a", "s", "k", "e", "t">>,
    <<"b", "a", "s", "k", "e", "t", "b", "a", "l", "l">> }

\* What the detector does with one image: predict raises, or it returns a
\* result whose boxes carry these class ids; cls_ok is whether boxes.cls.tolist()
\* works on that result.
Behaviours ==
  { [raises |-> TRUE, boxes |-> <<>>, cls_ok |-> TRUE],
    [raises |-> FALSE, boxes |-> <<>>, cls_ok |-> TRUE],
    [raises |-> FALSE, boxes |-> <<1>>, cls_ok |-> TRUE],
    [raises |-> FALSE, boxes |-> <<1, 0>>, cls_ok |-> TRUE],
    [raises |-> FALSE, boxes |-> <<2>>, cls_ok |-> TRUE],
    [raises |-> FALSE, boxes |-> <<1>>, cls_ok |-> FALSE] }

\* _ball_detected_from_result(model, res)
BallDetectedFromResult(model_names, res) ==
  IF Len(res.boxes) > 0
  THEN LET cls_ids == IF res.cls_ok THEN res.boxes
                      ELSE [k \in 1..Len(res.boxes) |-> k - 1]
       IN IF DOMAIN model_names # {}
          THEN \E k \in 1..Len(cls_ids) :
                 LET nm == Lower(IF cls_ids[k] \in DOMAIN model_names
                                 THEN model_names[cls_ids[k]] ELSE <<>>)
                 IN \E kw \in Keywords : Contains(nm, kw)
          ELSE Len(cls_ids) > 0
  ELSE FALSE

\* _mp_detect_one and the single-image path: predict on one image.
DetectOne(img) == IF img.raises THEN FALSE ELSE BallDetectedFromResult(names, img)

\* chunked(seq, size), as lists of positions of seq
Chunked(n, size) ==
  LET sz == IF size <= 0 THEN (IF n = 0 THEN 1 ELSE n) ELSE size
  IN [k \in 1..CeilDiv(n, sz) |->
        [j \in 1..Min(sz, n - (k - 1) * sz) |-> (k - 1) * sz + j]]
\* bs = max(1, int(args.batch_size))
Bs == IF batch_size < 1 THEN 1 ELSE batch_size
Batches == Chunked(Len(images_to_process), Bs)

FileName(src) == src.stem \o src.suffix
Exists(dir, fname) == \E e \in dir : e.name = fname
Candidate(src, k) == src.stem \o "_" \o ToString(k) \o src.suffix
\* a move that keeps the source name whatever the destination holds
SameName(dst_dir, src) == FileName(src)
\* the path safe_move moves to: src.name if free, else the first free suffix
Destination(dst_dir, src) ==
  IF ~Exists(dst_dir, FileName(src)) THEN FileName(src)
  ELSE Candidate(src,
         CHOOSE k \in 1..(Cardinality(dst_dir) + 1) :
           /\ ~Exists(dst_dir, Candidate(src, k))
           /\ \A j \in 1..(k - 1) : Exists(dst_dir, Candidate(src, j)))
\* shutil.move(src, dst): dst then holds the content of src
Move(dst_dir, fname, content) ==
  {e \in dst_dir : e.name # fname} \cup {[name |-> fname, content |-> content]}
SafeMove(dst_dir, src, content) == Move(dst_dir, Destination(dst_dir, src), content)

\* What Ball_detected / No_ball_detected may hold before the run.
ExistingChoices ==
  { {}, {[name |-> "f.jpg", content |-> 0]},
    {[name |-> "f.jpg", content |-> 0], [name |-> "f_1.jpg", content |-> 0]} }

\* The increasing enumeration of a set of positions.
Ascending(S) ==
  CHOOSE f \in [1..Cardinality(S) -> S] : \A a, b \in 1..Cardinality(S) : a < b => f[a] < f[b]

InitSeparateVars ==
  /\ mPc = "start" /\ exit_code = None
  /\ total = 0 /\ moved_ball = 0 /\ moved_no_ball = 0
  /\ batch_no = 1 /\ batch_pos = 1 /\ predicted = ""
  /\ \/ /\ input_kind = "missing" /\ images_to_process = <<>> /\ names = ClassNames
        /\ dry_run = FALSE /\ batch_size = 1 /\ workers = 0
        /\ input_files = {} /\ ball_dir = {} /\ no_ball_dir = {}
        /\ returned = <<>> /\ placed = <<>>
     \/ /\ input_kind = "dir"
        /\ \E S \in SUBSET (1..Len(ImageNames)) :
             /\ Cardinality(S) <= MaxSepImages
             /\ \E beh \in [1..Cardinality(S) -> Behaviours] :
                  images_to_process =
                    [k \in 1..Cardinality(S) |->
                       [name |-> ImageNames[Ascending(S)[k]], raises |-> beh[k].raises,
                        boxes |-> beh[k].boxes, cls_ok |-> beh[k].cls_ok]]
        /\ names \in {ClassNames, NoNames}
        /\ dry_run \in BOOLEAN
        /\ batch_size \in 0..MaxBatchSize
        /\ workers \in {0, 1}
        /\ input_files = {FileName(images_to_process[k].name) : k \in DOMAIN images_to_process}
        /\ ball_dir \in ExistingChoices /\ no_ball_dir \in ExistingChoices
        /\ returned = [k \in DOMAIN images_to_process |-> "none"]
        /\ placed = [k \in DOMAIN images_to_process |-> ""]

\* lines 147-150: the input path does not exist
SepInputMissing ==
  /\ mPc = "start" /\ input_kind = "missing"
  /\ exit_code' = 2 /\ mPc' = "done"
  /\ UNCHANGED <<input_kind, images_to_process, names, dry_run, batch_size, workers,
                 input_files, ball_dir, no_ball_dir, total, moved_ball, moved_no_ball,
                 batch_no, batch_pos, predicted, returned, placed>>
  /\ UNCHANGED notSeparateVars

\* lines 152-189, 210-211: list the images, load the model, make the two
\* folders and choose the path
SepStart ==
  /\ mPc = "start" /\ input_kind = "dir"
  /\ mPc' = IF Len(images_to_process) = 1 /\ workers = 0 THEN "single"
            ELSE IF Len(images_to_process) = 0 THEN "report"
            ELSE IF workers > 0 THEN "pool" ELSE "batch"
  /\ UNCHANGED <<input_kind, images_to_process, names, dry_run, batch_size, workers,
                 input_files, ball_dir, no_ball_dir, total, moved_ball, moved_no_ball,
                 batch_no, batch_pos, predicted, returned, placed, exit_code>>
  /\ UNCHANGED notSeparateVars

\* The body shared by the three paths: count the image, choose the target
\* folder and, unless --dry-run, safe_move the file and count the move.
Place(i, detected) ==
  LET img == images_to_process[i] IN
  /\ total' = total + 1
  /\ placed' = [placed EXCEPT ![i] = IF detected THEN "Ball_detected" ELSE "No_ball_detected"]
  /\ IF dry_run
     THEN UNCHANGED <<input_files, ball_dir, no_ball_dir, moved_ball, moved_no_ball>>
     ELSE /\ input_files' = input_files \ {FileName(img.name)}
          /\ ball_dir' = IF detected THEN SafeMove(ball_dir, img.name, i) ELSE ball_dir
          /\ no_ball_dir' = IF detected THEN no_ball_dir ELSE SafeMove(no_ball_dir, img.name, i)
          /\ moved_ball' = IF detected THEN moved_ball + 1 ELSE moved_ball
          /\ moved_no_ball' = IF detected THEN moved_no_ball ELSE moved_no_ball + 1

\* lines 189-209: the single-image path
SepSingleImage ==
  /\ mPc = "single"
  /\ returned' = [returned EXCEPT ![1] = IF images_to_process[1].raises THEN "error" ELSE "result"]
  /\ Place(1, DetectOne(images_to_process[1]))
  /\ mPc' = "report"
  /\ UNCHANGED <<input_kind, images_to_process, names, dry_run, batch_size, workers,
                 batch_no, batch_pos, predicted, exit_code>>
  /\ UNCHANGED notSeparateVars

\* lines 211-228: the next result of pool.imap_unordered, in any order
SepPoolResult ==
  /\ mPc = "pool"
  /\ \E i \in DOMAIN images_to_process :
       /\ placed[i] = ""
       /\ returned' = [returned EXCEPT ![i] = IF images_to_process[i].raises THEN "error"
                                               ELSE "result"]
       /\ Place(i, DetectOne(images_to_process[i]))
       /\ mPc' = IF \A j \in DOMAIN images_to_process : j # i => placed[j] # ""
                 THEN "report" ELSE "pool"
  /\ UNCHANGED <<input_kind, images_to_process, names, dry_run, batch_size, workers,
                 batch_no, batch_pos, predicted, exit_code>>
  /\ UNCHANGED notSeparateVars

\* lines 231-236: model.predict on the next chunk; the call raises when
\* inference raises on one of its images
SepPredictBatch ==
  /\ mPc = "batch"
  /\ LET chunk == Batches[batch_no]
         failed == \E k \in DOMAIN chunk : images_to_process[chunk[k]].raises
     IN /\ predicted' = IF failed THEN "error" ELSE "ok"
        /\ returned' = [i \in DOMAIN returned |->
                          IF i \in Range(chunk)
                          THEN (IF failed THEN "error" ELSE "result") ELSE returned[i]]
  /\ batch_pos' = 1 /\ mPc' = "moving"
  /\ UNCHANGED <<input_kind, images_to_process, names, dry_run, batch_size, workers,
                 input_files, ball_dir, no_ball_dir, total, moved_ball, moved_no_ball,
                 batch_no, placed, exit_code>>
  /\ UNCHANGED notSeparateVars

\* the end of one iteration over the current chunk
Advance ==
  IF batch_pos < Len(Batches[batch_no])
  THEN /\ batch_pos' = batch_pos + 1
       /\ UNCHANGED <<batch_no, predicted, mPc>>
  ELSE /\ batch_pos' = 1 /\ batch_no' = batch_no + 1 /\ predicted' = ""
       /\ mPc' = IF batch_no < Len(Batches) THEN "batch" ELSE "report"

\* lines 236-247: after a failed predict every image of the chunk goes to
\* No_ball_detected
SepMoveFailed ==
  /\ mPc = "moving" /\ predicted = "error"
  /\ Place(Batches[batch_no][batch_pos], FALSE)
  /\ Advance
  /\ UNCHANGED <<input_kind, images_to_process, names, dry_run, batch_size, workers,
                 returned, exit_code>>
  /\ UNCHANGED notSeparateVars

\* lines 249-260: zip(batch, results)
SepMoveClassified ==
  /\ mPc = "moving" /\ predicted = "ok"
  /\ LET i == Batches[batch_no][batch_pos]
     IN Place(i, BallDetectedFromResult(names, images_to_process[i]))
  /\ Advance
  /\ UNCHANGED <<input_kind, images_to_process, names, dry_run, batch_size, workers,
                 returned, exit_code>>
  /\ UNCHANGED notSeparateVars

\* lines 262-263
SepReturn ==
  /\ mPc = "report"
  /\ exit_code' = 0 /\ mPc' = "done"
  /\ UNCHANGED <<input_kind, images_to_process, names, dry_run, batch_size, workers,
                 input_files, ball_dir, no_ball_dir, total, moved_ball, moved_no_ball,
                 batch_no, batch_pos, predicted, returned, placed>>
  /\ UNCHANGED notSeparateVars

NextSeparate ==
  \/ SepInputMissing
  \/ SepStart
  \/ SepSingleImage
  \/ SepPoolResult
  \/ SepPredictBatch
  \/ SepMoveFailed
  \/ SepMoveClassified
  \/ SepReturn

\* ========================================================================
\* run_pipeline (run_pipeline.py): interactive_mode and auto_mode
\* ========================================================================
Event(stage, ev) == [stage |-> stage, ev |-> ev]
Outcome(ok) == IF ok THEN "ok" ELSE "failed"
\* a caller that goes on to the next stage whatever the stage reported
ContinueAnyway(ok, next) == next
\* `if not stageN(...): return 1`: where the caller goes after a stage
AfterStage(ok, next) == IF ok THEN next ELSE "stopped"

InitPipelineVars ==
  /\ auto \in BOOLEAN /\ rPc = "start"
  /\ source_videos \in 0..MaxSource
  /\ already_trimmed \in SUBSET (1..source_videos)
  /\ videos_to_trim = <<>> /\ trimmed_folders = <<>> /\ todo = <<>> /\ success_count = 0
  /\ events = <<>> /\ banner = FALSE /\ pipeline_exit = None

\* main, lines 452-455 and 394-400: auto mode goes straight to stage 1
AutoStart ==
  /\ rPc = "start" /\ auto
  /\ rPc' = "stage1"
  /\ UNCHANGED <<auto, source_videos, already_trimmed, videos_to_trim, trimmed_folders, todo,
                 success_count, events, banner, pipeline_exit>>
  /\ UNCHANGED notPipelineVars

\* lines 258-263: no source videos
InteractiveNoVideos ==
  /\ rPc = "start" /\ ~auto /\ source_videos = 0
  /\ rPc' = "done" /\ pipeline_exit' = 1
  /\ UNCHANGED <<auto, source_videos, already_trimmed, videos_to_trim, trimmed_folders, todo,
                 success_count, events, banner>>
  /\ UNCHANGED notPipelineVars

\* lines 277-284: every video is already trimmed and the user does not re-trim
InteractiveNothingNew ==
  /\ rPc = "start" /\ ~auto /\ source_videos > 0
  /\ (1..source_videos) \ already_trimmed = {}
  /\ rPc' = "done" /\ pipeline_exit' = 0
  /\ UNCHANGED <<auto, source_videos, already_trimmed, videos_to_trim, trimmed_folders, todo,
                 success_count, events, banner>>
  /\ UNCHANGED notPipelineVars

\* lines 277-317: the user answers per video; videos_to_trim gets the videos
\* answered 'y' with at least one range
InteractiveSelect ==
  /\ rPc = "start" /\ ~auto /\ source_videos > 0
  /\ LET untrimmed == (1..source_videos) \ already_trimmed
         untrimmed_videos == IF untrimmed = {} THEN 1..source_videos ELSE untrimmed
     IN \E chosen \in SUBSET untrimmed_videos : videos_to_trim' = Ascending(chosen)
  /\ rPc' = "confirm"
  /\ UNCHANGED <<auto, source_videos, already_trimmed, trimmed_folders, todo, success_count,
                 events, banner, pipeline_exit>>
  /\ UNCHANGED notPipelineVars

\* lines 343-347: "Start pipeline?" answered other than 'y'
InteractiveCancel ==
  /\ rPc = "confirm"
  /\ rPc' = "done" /\ pipeline_exit' = 0
  /\ UNCHANGED <<auto, source_videos, already_trimmed, videos_to_trim, trimmed_folders, todo,
                 success_count, events, banner>>
  /\ UNCHANGED notPipelineVars

\* lines 352-356: copy_untrimmed_videos, which returns True
CopyUntrimmed ==
  /\ rPc = "confirm"
  /\ rPc' = "stage1"
  /\ UNCHANGED <<auto, source_videos, already_trimmed, videos_to_trim, trimmed_folders, todo,
                 success_count, events, banner, pipeline_exit>>
  /\ UNCHANGED notPipelineVars

\* lines 359-360: `if videos_to_trim:` is false, stage 1 is not called
TrimSkipped ==
  /\ rPc = "stage1" /\ ~auto /\ videos_to_trim = <<>>
  /\ rPc' = "stage2"
  /\ UNCHANGED <<auto, source_videos, already_trimmed, videos_to_trim, trimmed_folders, todo,
                 success_count, events, banner, pipeline_exit>>
  /\ UNCHANGED notPipelineVars

\* lines 360-361, 79-92: stage1_trim_videos is entered
TrimStart ==
  /\ rPc = "stage1" /\ ~auto /\ videos_to_trim # <<>>
  /\ events' = Append(events, Event(1, "start"))
  /\ todo' = videos_to_trim /\ success_count' = 0
  /\ rPc' = "trimming"
  /\ UNCHANGED <<auto, source_videos, already_trimmed, videos_to_trim, trimmed_folders, banner,
                 pipeline_exit>>
  /\ UNCHANGED notPipelineVars

\* lines 93-108: one trim command
TrimOne ==
  /\ rPc = "trimming" /\ todo # <<>>
  /\ \E ok \in BOOLEAN :
       /\ success_count' = IF ok THEN success_count + 1 ELSE success_count
       /\ trimmed_folders' = IF ok THEN Append(trimmed_folders, Head(todo)) ELSE trimmed_folders
  /\ todo' = Tail(todo)
  /\ UNCHANGED <<auto, rPc, source_videos, already_trimmed, videos_to_trim, events, banner,
                 pipeline_exit>>
  /\ UNCHANGED notPipelineVars

\* lines 110-111, 361-363: stage 1 returns success_count > 0
TrimReturn ==
  /\ rPc = "trimming" /\ todo = <<>>
  /\ events' = Append(events, Event(1, Outcome(success_count > 0)))
  /\ rPc' = AfterStage(success_count > 0, "stage2")
  /\ UNCHANGED <<auto, source_videos, already_trimmed, videos_to_trim, trimmed_folders, todo,
                 success_count, banner, pipeline_exit>>
  /\ UNCHANGED notPipelineVars

\* lines 405-409: auto mode trims with one command
TrimAuto ==
  /\ rPc = "stage1" /\ auto
  /\ \E ok \in BOOLEAN :
       /\ events' = events \o <<Event(1, "start"), Event(1, Outcome(ok))>>
       /\ rPc' = AfterStage(ok, "stage2")
  /\ UNCHANGED <<auto, source_videos, already_trimmed, videos_to_trim, trimmed_folders, todo,
                 success_count, banner, pipeline_exit>>
  /\ UNCHANGED notPipelineVars

\* lines 122-126: data/all_video_frames does not exist
ExtractNoClipsDir ==
  /\ rPc = "stage2"
  /\ events' = events \o <<Event(2, "start"), Event(2, "failed")>>
  /\ rPc' = AfterStage(FALSE, "stage3")
  /\ UNCHANGED <<auto, source_videos, already_trimmed, videos_to_trim, trimmed_folders, todo,
                 success_count, banner, pipeline_exit>>
  /\ UNCHANGED notPipelineVars

\* lines 146-150: stage 2 on all videos, one command
ExtractAll ==
  /\ rPc = "stage2" /\ trimmed_folders = <<>>
  /\ \E ok \in BOOLEAN :
       /\ events' = events \o <<Event(2, "start"), Event(2, Outcome(ok))>>
       /\ rPc' = AfterStage(ok, "stage3")
  /\ UNCHANGED <<auto, source_videos, already_trimmed, videos_to_trim, trimmed_folders, todo,
                 success_count, banner, pipeline_exit>>
  /\ UNCHANGED notPipelineVars

\* lines 128-132: stage 2 on the newly trimmed folders
ExtractSelectedStart ==
  /\ rPc = "stage2" /\ trimmed_folders # <<>>
  /\ events' = Append(events, Event(2, "start"))
  /\ todo' = trimmed_folders /\ success_count' = 0
  /\ rPc' = "extracting"
  /\ UNCHANGED <<auto, source_videos, already_trimmed, videos_to_trim, trimmed_folders, banner,
                 pipeline_exit>>
  /\ UNCHANGED notPipelineVars

\* lines 132-141: one folder: skipped when missing, else one command
ExtractOne ==
  /\ rPc = "extracting" /\ todo # <<>>
  /\ \E found \in BOOLEAN, ok \in BOOLEAN :
       success_count' = IF found /\ ok THEN success_count + 1 ELSE success_count
  /\ todo' = Tail(todo)
  /\ UNCHANGED <<auto, rPc, source_videos, already_trimmed, videos_to_trim, trimmed_folders,
                 events, banner, pipeline_exit>>
  /\ UNCHANGED notPipelineVars

\* lines 143-144, 366-369
ExtractReturn ==
  /\ rPc = "extracting" /\ todo = <<>>
  /\ events' = Append(events, Event(2, Outcome(success_count > 0)))
  /\ rPc' = AfterStage(success_count > 0, "stage3")
  /\ UNCHANGED <<auto, source_videos, already_trimmed, videos_to_trim, trimmed_folders, todo,
                 success_count, banner, pipeline_exit>>
  /\ UNCHANGED notPipelineVars

\* lines 163-166, 180-191: data/extracted_frames is missing or holds no
\* matching frame folder
DetectNoFolders ==
  /\ rPc = "stage3"
  /\ events' = events \o <<Event(3, "start"), Event(3, "failed")>>
  /\ rPc' = AfterStage(FALSE, "finish")
  /\ UNCHANGED <<auto, source_videos, already_trimmed, videos_to_trim, trimmed_folders, todo,
                 success_count, banner, pipeline_exit>>
  /\ UNCHANGED notPipelineVars

\* lines 168-194: stage 3 found at least one frame folder
DetectStart ==
  /\ rPc = "stage3"
  /\ events' = Append(events, Event(3, "start"))
  /\ \E k \in 1..MaxFrameFolders : todo' = [j \in 1..k |-> j]
  /\ success_count' = 0
  /\ rPc' = "detecting"
  /\ UNCHANGED <<auto, source_videos, already_trimmed, videos_to_trim, trimmed_folders, banner,
                 pipeline_exit>>
  /\ UNCHANGED notPipelineVars

\* lines 194-206: one separate_images_by_ball command
DetectOneFolder ==
  /\ rPc = "detecting" /\ todo # <<>>
  /\ \E ok \in BOOLEAN : success_count' = IF ok THEN success_count + 1 ELSE success_count
  /\ todo' = Tail(todo)
  /\ UNCHANGED <<auto, rPc, source_videos, already_trimmed, videos_to_trim, trimmed_folders,
                 events, banner, pipeline_exit>>
  /\ UNCHANGED notPipelineVars

\* lines 208-209, 377-380
DetectReturn ==
  /\ rPc = "detecting" /\ todo = <<>>
  /\ events' = Append(events, Event(3, Outcome(success_count > 0)))
  /\ rPc' = AfterStage(success_count > 0, "finish")
  /\ UNCHANGED <<auto, source_videos, already_trimmed, videos_to_trim, trimmed_folders, todo,
                 success_count, banner, pipeline_exit>>
  /\ UNCHANGED notPipelineVars

\* lines 363, 369, 374, 380, 408, 413, 418: `return 1` after a failed stage
PipelineStop ==
  /\ rPc = "stopped"
  /\ rPc' = "done" /\ pipeline_exit' = 1
  /\ UNCHANGED <<auto, source_videos, already_trimmed, videos_to_trim, trimmed_folders, todo,
                 success_count, events, banner>>
  /\ UNCHANGED notPipelineVars

\* lines 382-389, 421-422: the success banner and `return 0`
PipelineFinish ==
  /\ rPc = "finish"
  /\ banner' = TRUE
  /\ rPc' = "done" /\ pipeline_exit' = 0
  /\ UNCHANGED <<auto, source_videos, already_trimmed, videos_to_trim, trimmed_folders, todo,
                 success_count, events>>
  /\ UNCHANGED notPipelineVars

NextPipeline ==
  \/ AutoStart
  \/ InteractiveNoVideos
  \/ InteractiveNothingNew
  \/ InteractiveSelect
  \/ InteractiveCancel
  \/ CopyUntrimmed
  \/ TrimSkipped
  \/ TrimStart
  \/ TrimOne
  \/ TrimReturn
  \/ TrimAuto
  \/ ExtractNoClipsDir
  \/ ExtractAll
  \/ ExtractSelectedStart
  \/ ExtractOne
  \/ ExtractReturn
  \/ DetectNoFolders
  \/ DetectStart
  \/ DetectOneFolder
  \/ DetectReturn
  \/ PipelineStop
  \/ PipelineFinish

\* ========================================================================
\* apply_augmentations and its caller, at the level of objects
\* (augmentation.py lines 222-262 and 379-395)
\* ========================================================================
Obj(kind, data) == [kind |-> kind, data |-> data]
\* the values of the boxes a list holds
BoxValues(h, list) == [k \in DOMAIN h[list].data |-> h[h[list].data[k]].data]
\* Each operation returns the heap it leaves; its result is the last object.
\* image.copy()
CopyImage(h, img) == Append(h, Obj("image", h[img].data))
\* bboxes.copy(): a new list of the same box objects
CopyList(h, list) == Append(h, Obj("list", h[list].data))
\* a cv2 / numpy call that returns a new array
NewImage(h, img, op) == Append(h, Obj("image", Append(h[img].data, op)))
\* a new list of new boxes with these values
NewBoxes(h, values) ==
  (h \o [k \in DOMAIN values |-> Obj("box", values[k])])
    \o <<Obj("list", [k \in DOMAIN values |-> Len(h) + k])>>
\* a flip that writes the new x into the boxes it was given
FlipBoxesInPlace(h, list) ==
  Append([a \in DOMAIN h |->
            IF a \in Range(h[list].data)
            THEN Obj("box", HorizontalFlip(<<h[a].data>>)[1]) ELSE h[a]],
         Obj("list", h[list].data))
\* horizontal_flip, lines 97-103: flipped_bboxes is a new list of new lists
FlipBoxes(h, list) == NewBoxes(h, HorizontalFlip(BoxValues(h, list)))
\* zoom_image, lines 152-186: new boxes when zooming in, bboxes.copy() otherwise
ZoomBoxes(h, list, z) ==
  IF z[1] > z[2] THEN NewBoxes(h, ZoomIn(z, BoxValues(h, list))) ELSE CopyList(h, list)

\* the objects the caller holds: the image, the list and its boxes
SourceObjects == 1..(2 + Len(parsed))

InitObjectVars ==
  /\ parsed \in BoxLists
  /\ heap = <<Obj("image", <<>>), Obj("list", [k \in DOMAIN parsed |-> 2 + k])>>
              \o [k \in DOMAIN parsed |-> Obj("box", parsed[k])]
  /\ image_ref = 1 /\ bboxes_ref = 2
  /\ aug_image_ref = 0 /\ aug_bboxes_ref = 0
  /\ oPc = "call" /\ loop_aug_id = 0
  /\ loop_count \in 1..MaxAug

\* lines 380-382 and 222-224: the call with (image, bboxes), and the two copies
ObjCall ==
  /\ oPc = "call"
  /\ LET h1 == CopyImage(heap, image_ref)
         h2 == CopyList(h1, bboxes_ref)
     IN /\ heap' = h2
        /\ aug_image_ref' = Len(h1)
        /\ aug_bboxes_ref' = Len(h2)
  /\ oPc' = Transforms[1]
  /\ UNCHANGED <<image_ref, bboxes_ref, loop_aug_id, loop_count, parsed>>
  /\ UNCHANGED notObjectVars

\* lines 227-236, 256-258: brightness, contrast and noise rebind aug_image
ObjPhotometric ==
  /\ oPc \in {"brightness", "contrast", "noise"}
  /\ \E active \in BOOLEAN :
       IF active
         THEN /\ heap' = NewImage(heap, aug_image_ref, oPc)
              /\ aug_image_ref' = Len(heap')
         ELSE UNCHANGED <<heap, aug_image_ref>>
  /\ oPc' = NextTransform(oPc)
  /\ UNCHANGED <<image_ref, bboxes_ref, aug_bboxes_ref, loop_aug_id, loop_count, parsed>>
  /\ UNCHANGED notObjectVars

\* lines 239-241
ObjFlip ==
  /\ oPc = "flip"
  /\ \E active \in BOOLEAN :
       IF active
         THEN LET h1 == NewImage(heap, aug_image_ref, oPc)
                  h2 == FlipBoxes(h1, aug_bboxes_ref)
              IN /\ heap' = h2
                 /\ aug_image_ref' = Len(h1)
                 /\ aug_bboxes_ref' = Len(h2)
         ELSE UNCHANGED <<heap, aug_image_ref, aug_bboxes_ref>>
  /\ oPc' = NextTransform(oPc)
  /\ UNCHANGED <<image_ref, bboxes_ref, loop_aug_id, loop_count, parsed>>
  /\ UNCHANGED notObjectVars

\* lines 244-247: rotate_image returns a new image and bboxes.copy()
ObjRotation ==
  /\ oPc = "rotation"
  /\ \E active \in BOOLEAN :
       IF active
         THEN LET h1 == NewImage(heap, aug_image_ref, oPc)
                  h2 == CopyList(h1, aug_bboxes_ref)
              IN /\ heap' = h2
                 /\ aug_image_ref' = Len(h1)
                 /\ aug_bboxes_ref' = Len(h2)
         ELSE UNCHANGED <<heap, aug_image_ref, aug_bboxes_ref>>
  /\ oPc' = NextTransform(oPc)
  /\ UNCHANGED <<image_ref, bboxes_ref, loop_aug_id, loop_count, parsed>>
  /\ UNCHANGED notObjectVars

\* lines 250-253
ObjZoom ==
  /\ oPc = "zoom"
  /\ \E active \in BOOLEAN, zoom_factor \in ZoomFactors :
       IF active
         THEN LET h1 == NewImage(heap, aug_image_ref, oPc)
                  h2 == ZoomBoxes(h1, aug_bboxes_ref, zoom_factor)
              IN /\ heap' = h2
                 /\ aug_image_ref' = Len(h1)
                 /\ aug_bboxes_ref' = Len(h2)
         ELSE UNCHANGED <<heap, aug_image_ref, aug_bboxes_ref>>
  /\ oPc' = NextTransform(oPc)
  /\ UNCHANGED <<image_ref, bboxes_ref, loop_aug_id, loop_count, parsed>>
  /\ UNCHANGED notObjectVars

\* lines 260-262 and 384-395: the variant is returned and written; the next
\* pass of the loop rebinds aug_image and aug_bboxes, so what the finished
\* call allocated is no longer referenced
ObjReturn ==
  /\ oPc = "name"
  /\ heap' = SubSeq(heap, 1, 2 + Len(parsed))
  /\ aug_image_ref' = 0 /\ aug_bboxes_ref' = 0
  /\ loop_aug_id' = loop_aug_id + 1
  /\ oPc' = IF loop_aug_id + 1 < loop_count THEN "call" ELSE "done"
  /\ UNCHANGED <<image_ref, bboxes_ref, loop_count, parsed>>
  /\ UNCHANGED notObjectVars

NextObjects ==
  \/ ObjCall
  \/ ObjPhotometric
  \/ ObjFlip
  \/ ObjRotation
  \/ ObjZoom
  \/ ObjReturn

\* ========================================================================
\* Idle values: a component that a specification does not run
\* ========================================================================
IdleSplitVars ==
  /\ input_exists = TRUE /\ EmptyOutput
  /\ input_dir = <<>> /\ seed = [k \in 1..(MaxVideos - 1) |-> 0] /\ ratios = <<80, 10, 10>>
  /\ sPc = "idle" /\ sRun = 1 /\ videos = <<>> /\ sIdx = 1
  /\ train = <<>> /\ val = <<>> /\ test = <<>> /\ c_train = 0 /\ c_val = 0
  /\ firstResult = None

IdleExtractVars ==
  /\ video = <<>> /\ frame_interval = 1 /\ max_frames = 0 /\ ePc = "idle"
  /\ frame_count = 0 /\ saved_count = 0 /\ metadata = <<>> /\ written = <<>>

IdleFilterVars ==
  /\ cfg = DefaultConfig /\ mode = "direct" /\ fPc = "off" /\ started = 0
  /\ image_files = 0 /\ frames = <<>> /\ previous_frame = None
  /\ previous_metric_frame = None /\ last_metric_frame = None /\ quality_count = 0
  /\ rejected_count = 0 /\ quality_frames_info = <<>> /\ out_files = <<>>
  /\ is_quality = FALSE /\ metrics = <<>> /\ result = NoResult /\ results = <<>>

IdleVariantVars ==
  /\ bboxes = <<>> /\ aug_bboxes = <<>> /\ aug_image = <<>> /\ aug_desc = <<>>
  /\ vPc = "idle" /\ augmentation_id = 0 /\ aug_name = ""

IdleAugmentVars ==
  /\ enabled = TRUE /\ aug_per_image = 0 /\ aug_files = <<>> /\ gPc = "idle" /\ gIdx = 1
  /\ aug_id = 0 /\ total_original = 0 /\ total_augmented = 0 /\ aug_written = <<>>
  /\ aug_result = NoAugResult

IdleBatchVars ==
  /\ video_files = <<>> /\ organize_by_video = TRUE /\ bPc = "idle" /\ bIdx = 1
  /\ batch_results = <<>> /\ frame_dirs = {} /\ frame_files = {}

IdleSeparateVars ==
  /\ input_kind = "missing" /\ images_to_process = <<>> /\ names = <<>>
  /\ dry_run = FALSE /\ batch_size = 1 /\ workers = 0 /\ mPc = "idle"
  /\ input_files = {} /\ ball_dir = {} /\ no_ball_dir = {}
  /\ total = 0 /\ moved_ball = 0 /\ moved_no_ball = 0
  /\ batch_no = 1 /\ batch_pos = 1 /\ predicted = ""
  /\ returned = <<>> /\ placed = <<>> /\ exit_code = None

IdlePipelineVars ==
  /\ auto = FALSE /\ rPc = "idle" /\ source_videos = 0 /\ already_trimmed = {}
  /\ videos_to_trim = <<>> /\ trimmed_folders = <<>> /\ todo = <<>> /\ success_count = 0
  /\ events = <<>> /\ banner = FALSE /\ pipeline_exit = None

IdleObjectVars ==
  /\ heap = <<>> /\ image_ref = 0 /\ bboxes_ref = 0 /\ aug_image_ref = 0 /\ aug_bboxes_ref = 0
  /\ oPc = "idle" /\ loop_aug_id = 0 /\ loop_count = 0 /\ parsed = <<>>

InitSplit == InitSplitVars /\ IdleExtractVars /\ IdleFilterVars /\ IdleVariantVars /\ IdleAugmentVars /\ IdleBatchVars /\ IdleSeparateVars /\ IdlePipelineVars /\ IdleObjectVars
InitSplitRun == InitSplitRunVars /\ IdleExtractVars /\ IdleFilterVars /\ IdleVariantVars /\ IdleAugmentVars /\ IdleBatchVars /\ IdleSeparateVars /\ IdlePipelineVars /\ IdleObjectVars
InitExtract == IdleSplitVars /\ InitExtractVars /\ IdleFilterVars /\ IdleVariantVars /\ IdleAugmentVars /\ IdleBatchVars /\ IdleSeparateVars /\ IdlePipelineVars /\ IdleObjectVars
InitFilter == IdleSplitVars /\ IdleExtractVars /\ InitFilterVars /\ IdleVariantVars /\ IdleAugmentVars /\ IdleBatchVars /\ IdleSeparateVars /\ IdlePipelineVars /\ IdleObjectVars
InitCalls == IdleSplitVars /\ IdleExtractVars /\ IdleFilterVars /\ InitCallsVars /\ IdleAugmentVars /\ IdleBatchVars /\ IdleSeparateVars /\ IdlePipelineVars /\ IdleObjectVars
InitVariant == IdleSplitVars /\ IdleExtractVars /\ IdleFilterVars /\ InitVariantVars /\ IdleAugmentVars /\ IdleBatchVars /\ IdleSeparateVars /\ IdlePipelineVars /\ IdleObjectVars
InitAugment ==
  IdleSplitVars /\ IdleExtractVars /\ IdleFilterVars /\ IdleVariantVars /\ InitAugmentVars
  /\ IdleBatchVars /\ IdleSeparateVars /\ IdlePipelineVars /\ IdleObjectVars
InitBatch ==
  IdleSplitVars /\ IdleFilterVars /\ IdleVariantVars /\ IdleAugmentVars /\ InitBatchVars
  /\ IdleSeparateVars /\ IdlePipelineVars /\ IdleObjectVars
InitSeparate ==
  IdleSplitVars /\ IdleExtractVars /\ IdleFilterVars /\ IdleVariantVars /\ IdleAugmentVars
  /\ IdleBatchVars /\ InitSeparateVars /\ IdlePipelineVars /\ IdleObjectVars
InitPipeline ==
  IdleSplitVars /\ IdleExtractVars /\ IdleFilterVars /\ IdleVariantVars /\ IdleAugmentVars
  /\ IdleBatchVars /\ IdleSeparateVars /\ InitPipelineVars /\ IdleObjectVars
InitObjects ==
  IdleSplitVars /\ IdleExtractVars /\ IdleFilterVars /\ IdleVariantVars /\ IdleAugmentVars
  /\ IdleBatchVars /\ IdleSeparateVars /\ IdlePipelineVars /\ InitObjectVars

SpecSplit == InitSplit /\ [][NextSplit]_vars
SpecSplitRun == InitSplitRun /\ [][NextSplitRun]_vars
SpecExtract == InitExtract /\ [][NextExtract]_vars
SpecFilter == InitFilter /\ [][NextFilter]_vars
SpecCalls == InitCalls /\ [][NextCalls]_vars
SpecVariant == InitVariant /\ [][NextVariant]_vars
SpecAugment == InitAugment /\ [][NextAugment]_vars
SpecBatch == InitBatch /\ [][NextBatch]_vars
SpecSeparate == InitSeparate /\ [][NextSeparate]_vars
SpecPipeline == InitPipeline /\ [][NextPipeline]_vars
SpecObjects == InitObjects /\ [][NextObjects]_vars

\* ========================================================================
\* Properties of DatasetSplitter (checked under SpecSplit)
\* ========================================================================
Ids(s) == {s[k][1] : k \in DOMAIN s}

\* the folders of the input directory that hold at least one image
FoldersWithImages == {k \in DOMAIN input_dir : input_dir[k] > 0}

MaxCnt(s) == IF s = <<>> THEN 0 ELSE CHOOSE m \in {s[k][2] : k \in DOMAIN s} :
                                       \A k \in DOMAIN s : s[k][2] <= m

\* C1: after _assign_videos_to_splits, the identifier sets of train, val and
\* test are pairwise disjoint, no video is listed twice, and their union is
\* the whole input list (the folders with images): every video is in exactly
\* one partition.
C1_ExactlyOnePartition ==
  sPc = "assigned" =>
    /\ Ids(train) \cap Ids(val) = {}
    /\ Ids(train) \cap Ids(test) = {}
    /\ Ids(val) \cap Ids(test) = {}
    /\ Ids(train) \cup Ids(val) \cup Ids(test) = FoldersWithImages
    /\ Len(train) + Len(val) + Len(test) = Cardinality(FoldersWithImages)
    /\ \A k \in DOMAIN train : train[k][2] = input_dir[train[k][1]]
    /\ \A k \in DOMAIN val : val[k][2] = input_dir[val[k][1]]
    /\ \A k \in DOMAIN test : test[k][2] = input_dir[test[k][1]]

\* three videos, one in each partition
C1_Witness ==
  sPc = "assigned" /\ Len(train) = 1 /\ Len(val) = 1 /\ Len(test) = 1

\* C7: each step of the pass puts the video into train iff train is empty or
\* (images already in train) + cnt <= train_ratio * total_images; otherwise
\* into val iff val is empty or (images already in val) + cnt <= val_ratio *
\* total_images; otherwise into test; and c_train, c_val are the image sums
\* of the videos already assigned to train, val.
C7_GreedyRule ==
  [][(sPc = "assign" /\ sIdx' = sIdx + 1) =>
       LET v == videos[sIdx]
           cnt == v[2]
           all_images == SumCnt(videos)
           fitsTrain == train = <<>> \/ (SumCnt(train) + cnt) * 100 <= ratios[1] * all_images
           fitsVal == val = <<>> \/ (SumCnt(val) + cnt) * 100 <= ratios[2] * all_images
       IN /\ c_train = SumCnt(train) /\ c_val = SumCnt(val)
          /\ c_train' = SumCnt(train') /\ c_val' = SumCnt(val')
          /\ IF fitsTrain
               THEN train' = Append(train, v) /\ val' = val /\ test' = test
             ELSE IF fitsVal
               THEN train' = train /\ val' = Append(val, v) /\ test' = test
             ELSE train' = train /\ val' = val /\ test' = Append(test, v)]_vars

\* a second video entered train because it fitted, another went to val
C7_Witness ==
  sPc = "assigned" /\ Len(train) >= 2 /\ Len(val) >= 1

\* C8 (as claimed): after the pass, every partition whose ratio is nonzero
\* holds at least one video.
C8_EveryPartitionGetsAVideo ==
  (sPc = "assigned" /\ videos # <<>>) =>
    /\ ratios[1] > 0 => train # <<>>
    /\ ratios[2] > 0 => val # <<>>
    /\ ratios[3] > 0 => test # <<>>

\* C9: the images assigned to train differ from train_ratio * total_images
\* by at most the image count of the largest video (both sides times 100).
C9_TrainWithinOneVideo ==
  sPc = "assigned" =>
    Abs(SumCnt(train) * 100 - ratios[1] * SumCnt(videos)) <= 100 * MaxCnt(videos)

\* train missed its target by more than half the largest video, with
\* videos left to val and test
C9_Witness ==
  /\ sPc = "assigned" /\ Len(videos) >= 3 /\ ratios = <<80, 10, 10>>
  /\ 2 * Abs(SumCnt(train) * 100 - ratios[1] * SumCnt(videos)) > 100 * MaxCnt(videos)

\* C10: a second run of split() over the same directory, seed and ratios
\* returns the train, val and test lists of the first run, in whatever order
\* the file system lists the folders.
C10_Reproducible ==
  (sRun = 2 /\ sPc = "assigned") => <<train, val, test>> = firstResult

\* the second run is over, and the shuffle did reorder the gathered list
C10_Witness ==
  /\ sRun = 2 /\ sPc = "assigned" /\ Len(videos) >= 3
  /\ \E a, b \in DOMAIN videos : a < b /\ videos[a][1] > videos[b][1]

\* ---- the whole run of split() (checked under SpecSplitRun) ----
\* the folders a list of manifest names refers to
NameSet(listed) == {listed[k] : k \in DOMAIN listed}

\* the images of the folders a list of names refers to, counted in the input
RECURSIVE ImagesOf(_)
ImagesOf(listed) ==
  IF listed = <<>> THEN 0 ELSE input_dir[Head(listed)] + ImagesOf(Tail(listed))

NothingWritten ==
  /\ out_dirs = {}
  /\ \A p \in Range(Partitions) : copied[p] = <<>>
  /\ data_yaml = 0
  /\ summary_writes = 0

\* C11: a folder without images is never assigned to a partition, never
\* copied and never listed in the manifest; and when no folder holds an image
\* (none exists, all are empty, or the input directory is missing) split()
\* returns a failure result and creates no partition directory, no
\* data.yaml and no split_summary.json.
C11_OnlyFoldersWithImages ==
  /\ \A k \in DOMAIN input_dir :
        input_dir[k] = 0 =>
          /\ k \notin Ids(train) \cup Ids(val) \cup Ids(test)
          /\ \A p \in Range(Partitions) :
                k \notin Ids(copied[p]) /\ k \notin NameSet(summary.videos[p])
  /\ (FoldersWithImages = {} \/ ~input_exists) =>
        /\ NothingWritten
        /\ sPc \in {"start", "failed"}
        /\ sPc = "failed" => split_result = FailedSplit
        /\ sPc = "start" => split_result = NoSplitResult

\* split() has failed over a directory that holds folders, all of them empty
C11_Witness ==
  /\ sPc = "failed" /\ input_exists /\ Len(input_dir) >= 2
  /\ split_result.returned /\ ~split_result.success

\* C12: split_summary.json is written at most once, exactly once by the time
\* split() returns success, and only when every assigned video folder has
\* been copied; each counts[p] is the number of images of exactly the
\* folders named in videos[p], the counts add up to the images of all
\* gathered folders, and they equal train_images, val_images and
\* test_images of the returned result.
C12_SummaryMatchesCopies ==
  /\ summary_writes <= 1
  /\ sPc = "done" => summary_writes = 1
  /\ summary_writes = 1 =>
        /\ copied["train"] = train /\ copied["val"] = val /\ copied["test"] = test
        /\ \A p \in Range(Partitions) :
              /\ summary.videos[p] = Names(copied[p])
              /\ summary.counts[p] = ImagesOf(summary.videos[p])
        /\ summary.counts["train"] + summary.counts["val"] + summary.counts["test"]
             = SumSeq(input_dir)
  /\ (split_result.returned /\ split_result.success) =>
        /\ summary_writes = 1
        /\ split_result.train_images = summary.counts["train"]
        /\ split_result.val_images = summary.counts["val"]
        /\ split_result.test_images = summary.counts["test"]

\* split() returned success over three folders of more than one image, one
\* in each partition
C12_Witness ==
  /\ sPc = "done" /\ split_result.success
  /\ Len(summary.videos["train"]) = 1 /\ Len(summary.videos["val"]) = 1
  /\ Len(summary.videos["test"]) = 1
  /\ summary.counts["train"] > 1 /\ summary.counts["val"] > 1

\* ========================================================================
\* Properties of QualityFilter (checked under SpecFilter)
\* ========================================================================
\* a loop step that read a decodable frame (it was accepted or rejected)
EvaluatedFrame == fPc = "loop" /\ Len(frames') = Len(frames) + 1 /\ frames'[Len(frames')] # None

Keys(m) == [k \in DOMAIN m |-> m[k][1]]

\* the checks that apply against reference `reference`, in the documented order
ApplicableChecks(reference) ==
  <<"brightness", "sharpness">>
  \o (IF cfg.detect_motion /\ reference # None THEN <<"motion_score">> ELSE <<>>)
  \o (IF cfg.skip_similar /\ reference # None THEN <<"similarity">> ELSE <<>>)

MetricValue(key, metric_frame, reference) ==
  CASE key = "brightness" -> CalculateBrightness(metric_frame)
    [] key = "sharpness" -> CalculateSharpness(metric_frame)
    [] key = "motion_score" -> CalculateMotionScore(metric_frame, reference)
    [] key = "similarity" -> CalculateSimilarity(metric_frame, reference)

CheckPasses(key, value) ==
  CASE key = "brightness" -> cfg.min_brightness <= value /\ value <= cfg.max_brightness
    [] key = "sharpness" -> value >= cfg.min_sharpness
    [] key = "motion_score" -> value >= cfg.min_motion_score
    [] key = "similarity" -> value <= cfg.similarity_threshold

\* the frame most recently accepted by the running pass (None: none yet)
LastAccepted ==
  IF quality_frames_info = <<>> THEN None
  ELSE frames[quality_frames_info[Len(quality_frames_info)].file]

\* filter_frames run on this folder alone by a new QualityFilter: the
\* reference starts absent and follows the accepted frames
RECURSIVE FreshRun(_)
FreshRun(fs) ==
  IF fs = <<>> THEN [reference |-> None, info |-> <<>>, rejected |-> 0]
  ELSE LET before == FreshRun(SubSeq(fs, 1, Len(fs) - 1))
           frame == fs[Len(fs)]
           r == IsQualityFrame(frame, before.reference)
       IN IF frame = None THEN before
          ELSE IF r.ok
            THEN [reference |-> IF r.stashed THEN r.metric_frame ELSE before.reference,
                  info |-> Append(before.info, [file |-> Len(fs), metrics |-> r.metrics]),
                  rejected |-> before.rejected]
          ELSE [before EXCEPT !.rejected = @ + 1]

\* C3: the returned metrics are those of the checks in the order brightness,
\* sharpness, motion, similarity up to the first failing one: every listed
\* check but the last passed, a rejected frame's last metric fails its check
\* and nothing follows it, an accepted frame passed every applicable check.
C3_OrderedShortCircuit ==
  [][EvaluatedFrame =>
       LET metric_frame == ResizeForMetrics(frames'[Len(frames')])
           applicable == ApplicableChecks(previous_metric_frame)
           n == Len(metrics')
       IN IF ~cfg.enabled THEN is_quality' /\ metrics' = <<>>
          ELSE /\ n >= 1 /\ n <= Len(applicable)
               /\ Keys(metrics') = SubSeq(applicable, 1, n)
               /\ \A k \in 1..n :
                    metrics'[k][2] = MetricValue(applicable[k], metric_frame, previous_metric_frame)
               /\ \A k \in 1..(n - 1) : CheckPasses(applicable[k], metrics'[k][2])
               /\ is_quality' <=> (n = Len(applicable) /\ CheckPasses(applicable[n], metrics'[n][2]))
               /\ ~is_quality' => ~CheckPasses(applicable[n], metrics'[n][2])]_vars

\* a frame rejected by the motion check: three metrics, no similarity
C3_Witness ==
  /\ fPc = "loop" /\ ~is_quality
  /\ Keys(metrics) = <<"brightness", "sharpness", "motion_score">>
  /\ cfg.skip_similar

\* C4: throughout a pass the reference (previous_frame, and the metric frame
\* the motion and similarity checks read) is the most recently accepted frame
\* of this folder: an accepted frame becomes the reference, a rejected or
\* unreadable one leaves it as it was, and every motion or similarity metric
\* is computed against the last accepted frame.
C4_ReferenceIsLastAccepted ==
  [][(fPc = "loop" /\ Len(frames') = Len(frames) + 1) =>
       LET frame == frames'[Len(frames')]
           accepted == quality_count' = quality_count + 1
       IN /\ accepted =>
               /\ previous_frame' = frame
               /\ cfg.enabled => previous_metric_frame' = ResizeForMetrics(frame)
          /\ ~accepted =>
               /\ previous_frame' = previous_frame
               /\ previous_metric_frame' = previous_metric_frame
          /\ previous_frame = LastAccepted
          /\ previous_frame' = LastAccepted'
          /\ cfg.enabled =>
               /\ previous_metric_frame = ResizeForMetrics(LastAccepted)
               /\ previous_metric_frame' = ResizeForMetrics(LastAccepted')
          /\ frame # None =>
               \A k \in DOMAIN metrics' :
                 metrics'[k][1] \in {"motion_score", "similarity"} =>
                   /\ LastAccepted # None
                   /\ metrics'[k][2] = MetricValue(metrics'[k][1], ResizeForMetrics(frame),
                                                   ResizeForMetrics(LastAccepted))]_vars

\* accepted, rejected, then a frame accepted against the first one: it
\* differs enough from the accepted frame
C4_Witness ==
  /\ fPc = "loop" /\ Len(frames) = 3 /\ Len(quality_frames_info) = 2
  /\ quality_frames_info[1].file = 1 /\ quality_frames_info[2].file = 3
  /\ frames[2] # None
  /\ Keys(metrics) = <<"brightness", "sharpness", "motion_score", "similarity">>

\* C5: while the running pass has accepted no frame, a decodable frame is
\* rejected by brightness or sharpness only (no motion or similarity metric
\* is taken), and a frame passing both is accepted.
C5_FirstFrameAdmission ==
  [][(EvaluatedFrame /\ quality_count = 0) =>
       LET metric_frame == ResizeForMetrics(frames'[Len(frames')])
       IN /\ previous_metric_frame = None
          /\ \A k \in DOMAIN metrics' : metrics'[k][1] \in {"brightness", "sharpness"}
          /\ ( /\ CheckPasses("brightness", CalculateBrightness(metric_frame))
               /\ CheckPasses("sharpness", CalculateSharpness(metric_frame)) )
             => (is_quality' /\ quality_count' = 1)]_vars

\* second folder: a first frame rejected for brightness or sharpness, then a
\* frame accepted with no motion or similarity metric taken
C5_Witness ==
  /\ started = 2 /\ fPc = "loop" /\ cfg = DefaultConfig
  /\ Len(frames) = 2 /\ frames[1] # None /\ frames[1] # <<0, 0>> /\ rejected_count = 1
  /\ quality_count = 1 /\ quality_frames_info[1].file = 2
  /\ Keys(metrics) = <<"brightness", "sharpness">>

\* C6: in every pass, whatever was filtered before with the same instance,
\* the frames accepted (with their metrics) and the number rejected are those
\* of the same folder filtered alone by a new filter; every pass starts with
\* the reference absent.
C6_PassesAreIsolated ==
  fPc = "loop" =>
    /\ quality_frames_info = FreshRun(frames).info
    /\ rejected_count = FreshRun(frames).rejected
    /\ quality_count = Len(FreshRun(frames).info)
    /\ frames = <<>> => (previous_frame = None /\ previous_metric_frame = None)

\* batch: the first folder had frames accepted, the second folder's pass
\* accepted one frame and rejected a later one by motion
C6_Witness ==
  /\ mode = "batch" /\ Len(results) = 1 /\ results[1].quality_frames >= 1
  /\ fPc = "loop" /\ started = 2 /\ quality_count >= 1
  /\ ~is_quality /\ Len(metrics) = 3

\* ========================================================================
\* Properties of FrameExtractor (checked under SpecExtract)
\* ========================================================================
\* C2: a video of F frames sampled at interval N yields ceil(F/N) saved
\* frames, min(ceil(F/N), max_frames) under a positive cap; the k-th saved
\* frame (from 0) is source frame k*N, whatever the frames show.
C2_PositionalSampling ==
  ePc = "done" =>
    LET F == Len(video)
        expected == IF max_frames > 0
                      THEN Min(CeilDiv(F, frame_interval), max_frames)
                      ELSE CeilDiv(F, frame_interval)
    IN /\ saved_count = expected
       /\ Len(metadata) = expected
       /\ Len(written) = expected
       /\ \A k \in 1..expected :
            /\ metadata[k].frame_number = (k - 1) * frame_interval
            /\ metadata[k].saved_index = k - 1
            /\ written[k] = video[(k - 1) * frame_interval + 1]

\* the cap cut a sampling with a stride above one short, over frames of both kinds
C2_Witness ==
  /\ ePc = "done" /\ frame_interval >= 2 /\ max_frames > 0
  /\ saved_count = max_frames
  /\ CeilDiv(Len(video), frame_interval) > max_frames
  /\ Range(video) = FrameContents

\* ========================================================================
\* Properties of DataAugmentor's transforms (checked under SpecCalls)
\* ========================================================================
\* the call that produced the next state
CalledFlip == aug_image' = Append(aug_image, <<"flip", <<1, 1>>>>)
CalledZoom(z) == aug_image' = Append(aug_image, <<"zoom", z>>)

\* C13: horizontal_flip returns as many boxes as it was given, in the same
\* order, each (class, x, y, w, h) as (class, 1 - x, y, w, h); and two
\* successive flips of an annotation return the annotation.
C13_FlipMirrorsCentres ==
  /\ [][CalledFlip =>
          /\ Len(aug_bboxes') = Len(aug_bboxes)
          /\ \A k \in DOMAIN aug_bboxes :
                /\ aug_bboxes'[k][1] = aug_bboxes[k][1]
                /\ aug_bboxes'[k][2] + aug_bboxes[k][2] = Den
                /\ aug_bboxes'[k][3] = aug_bboxes[k][3]
                /\ aug_bboxes'[k][4] = aug_bboxes[k][4]
                /\ aug_bboxes'[k][5] = aug_bboxes[k][5]]_vars
  /\ [](aug_image = <<(<<"flip", <<1, 1>>>>), (<<"flip", <<1, 1>>>>)>> => aug_bboxes = bboxes)

\* two boxes with different centres off the middle were flipped twice
C13_Witness ==
  /\ aug_image = <<(<<"flip", <<1, 1>>>>), (<<"flip", <<1, 1>>>>)>>
  /\ Len(bboxes) = 2
  /\ bboxes[1][2] * 2 < Den /\ bboxes[2][2] * 2 > Den

\* the crop of a zoom in, said without division: the largest whole size not
\* above size / z, placed by the whole offset that centres it
CropOf(size, z) ==
  LET n == CHOOSE c \in 0..size : c * z[1] <= size * z[2] /\ (c + 1) * z[1] > size * z[2]
      o == CHOOSE c \in 0..size : 2 * c <= size - n /\ 2 * (c + 1) > size - n
  IN [size |-> n, offset |-> o]

\* the centre c, remapped through the crop and the rescale by z, lies in [0, 1]
CentreInside(c, size, z) ==
  LET moved == (c * size - CropOf(size, z).offset * Den) * z[1]
  IN 0 <= moved /\ moved <= size * Den * z[2]

\* new is the centre c remapped through the crop and the rescale by z
IsRemapped(new, c, size, z) ==
  new * size * z[2] = (c * size - CropOf(size, z).offset * Den) * z[1]

KeptBy(z, bs) ==
  {k \in DOMAIN bs : CentreInside(bs[k][2], ImageW, z) /\ CentreInside(bs[k][3], ImageH, z)}

\* the i-th smallest member of a set of positions
NthOf(S, i) == CHOOSE k \in S : Cardinality({j \in S : j < k}) = i - 1

\* C14: zoom_image with z > 1 returns, in their order, exactly the boxes
\* whose centre remapped through the crop and the rescale lies in
\* [0,1] x [0,1], each with its class and its remapped centre, and drops the
\* others; with z <= 1 it returns the annotation unchanged.
C14_ZoomKeepsVisibleCentres ==
  [][\A z \in ZoomFactors :
       CalledZoom(z) =>
         IF z[1] > z[2]
           THEN LET kept == KeptBy(z, aug_bboxes)
                IN /\ Len(aug_bboxes') = Cardinality(kept)
                   /\ \A i \in DOMAIN aug_bboxes' :
                         LET b == aug_bboxes[NthOf(kept, i)]
                             n == aug_bboxes'[i]
                         IN /\ n[1] = b[1]
                            /\ IsRemapped(n[2], b[2], ImageW, z)
                            /\ IsRemapped(n[3], b[3], ImageH, z)
                            /\ 0 <= n[2] /\ n[2] <= Den /\ 0 <= n[3] /\ n[3] <= Den
           ELSE aug_bboxes' = aug_bboxes]_vars

\* z = 1.5 dropped the box on the right border and kept the centred box
C14_Witness ==
  /\ aug_image = <<(<<"zoom", <<3, 2>>>>)>>
  /\ bboxes = <<(<<0, 40, 30, 20, 20>>), (<<0, 20, 20, 10, 10>>)>>
  /\ Len(aug_bboxes) = 1

\* ========================================================================
\* Properties of apply_augmentations (checked under SpecVariant)
\* ========================================================================
\* C15 (as claimed): every box apply_augmentations returns for an annotation
\* with all fields in [0,1] has its centre, width and height in [0,1].
C15_EmittedBoxesNormalised ==
  vPc = "returned" =>
    \A k \in DOMAIN aug_bboxes :
      \A f \in 2..5 : 0 <= aug_bboxes[k][f] /\ aug_bboxes[k][f] <= Den

\* the place of a transform in the claimed order
Rank(name) ==
  CASE name = "brightness" -> 1
    [] name = "contrast" -> 2
    [] name = "flip" -> 3
    [] name = "rotation" -> 4
    [] name = "zoom" -> 5
    [] name = "noise" -> 6
    [] OTHER -> 7

\* the tags a transform can leave in the descriptor
TagsOf(name) ==
  CASE name = "brightness" -> {"bright-30", "bright+30"}
    [] name = "contrast" -> {"contrast0.80"}
    [] name = "flip" -> {"hflip"}
    [] name = "rotation" -> {"rot5.0"}
    [] name = "zoom" -> {"zoom0.90", "zoom1.00", "zoom1.10", "zoom1.50"}
    [] OTHER -> {"noise"}

\* C16: the transforms applied to a variant are applied in the order
\* brightness, contrast, flip, rotation, zoom, noise, each at most once and
\* only when its turn has come, and the descriptor holds one tag per applied
\* transform, in the order of application.
C16_FixedCompositionOrder ==
  /\ \A a, b \in DOMAIN aug_image :
        a < b => Rank(aug_image[a][1]) < Rank(aug_image[b][1])
  /\ \A a \in DOMAIN aug_image : Rank(aug_image[a][1]) < Rank(vPc)
  /\ Len(aug_desc) = Len(aug_image)
  /\ \A a \in DOMAIN aug_image : aug_desc[a] \in TagsOf(aug_image[a][1])

\* all six transforms were applied to a variant
C16_Witness ==
  vPc = "returned" /\ Len(aug_image) = 6 /\ Len(aug_desc) = 6

\* ========================================================================
\* Properties of augment_dataset (checked under SpecAugment)
\* ========================================================================
\* the source images of a folder that cv2.imread could read
ReadableIn(folder) ==
  {k \in DOMAIN aug_files : aug_files[k].folder = folder /\ aug_files[k].readable}

\* the image files lying in the output folder that mirrors `folder`
OutputImagesIn(folder) ==
  {aug_written[i].path : i \in {j \in DOMAIN aug_written :
                                  aug_files[aug_written[j].src].folder = folder}}

SourceFolders == {aug_files[k].folder : k \in DOMAIN aug_files}

\* C17 (as claimed): when augment_dataset has returned success, the output
\* folder of every video holds n * (1 + K) images, n the readable source
\* images of that video and K augmentations_per_image, and the result
\* reports original_count = N, augmented_count = N * K and
\* total_count = N * (1 + K) for the N readable source images.
C17_OutputHoldsOriginalsAndVariants ==
  (gPc = "done" /\ aug_result.success) =>
    /\ \A g \in SourceFolders :
          Cardinality(OutputImagesIn(g)) = Cardinality(ReadableIn(g)) * (1 + aug_per_image)
    /\ LET N == Cardinality({k \in DOMAIN aug_files : aug_files[k].readable})
       IN /\ aug_result.original_count = N
          /\ aug_result.augmented_count = N * aug_per_image
          /\ aug_result.total_count = N * (1 + aug_per_image)

\* C18: the images written for one source frame, its original and its
\* variants, all have different paths, whatever the draws were.
C18_VariantNamesDistinct ==
  \A i, j \in DOMAIN aug_written :
    (i # j /\ aug_written[i].src = aug_written[j].src) =>
      aug_written[i].path # aug_written[j].path

\* two variants of one frame were written with no transform drawn for either
C18_Witness ==
  /\ gPc = "done"
  /\ \E i, j \in DOMAIN aug_written :
       /\ aug_written[i].src = aug_written[j].src
       /\ aug_written[i].path = "v1/f_aug1.jpg"
       /\ aug_written[j].path = "v1/f_aug2.jpg"

\* ========================================================================
\* Properties of extract_frames_from_videos (checked under SpecBatch)
\* ========================================================================
\* the frames extract_frames_from_video saves from a video of F frames
\* processed on its own: every 30th frame, up to the cap
AloneCount(F) ==
  LET sampled == CeilDiv(F, 30)
  IN IF max_frames # 0 THEN Min(sampled, max_frames) ELSE sampled

\* the frame files a video processed on its own leaves behind
AloneFiles(k) ==
  IF video_files[k].state = "ok"
    THEN {<<OutputDirOf(k), FrameFilename(VideoNames[k], i)>> :
            i \in 0..(AloneCount(video_files[k].frames) - 1)}
    ELSE {}

\* C19: extract_frames_from_videos returns one result per found video, in
\* the order the videos are processed; a video that is missing or does not
\* open gets a failure result and no frame file; every other video gets the
\* result, and leaves the frame files, it would have on its own.
C19_FailuresAreIsolated ==
  /\ Len(batch_results) <= Len(video_files)
  /\ \A k \in DOMAIN batch_results :
        /\ batch_results[k].video_name = VideoNames[k]
        /\ IF video_files[k].state = "ok"
             THEN /\ batch_results[k].success
                  /\ batch_results[k].frames_extracted = AloneCount(video_files[k].frames)
             ELSE /\ ~batch_results[k].success
                  /\ batch_results[k].frames_extracted = 0
  /\ bPc = "done" =>
        /\ Len(batch_results) = Len(video_files)
        /\ frame_files = UNION {AloneFiles(k) : k \in DOMAIN video_files}

\* the first video did not open, the second one was sampled twice
C19_Witness ==
  /\ bPc = "done" /\ Len(video_files) = 2
  /\ video_files[1].state = "unopenable"
  /\ batch_results[2].success /\ batch_results[2].frames_extracted = 2

\* ========================================================================
\* Invalid configuration (checked under SpecSplitRun)
\* ========================================================================
\* C20 (as claimed, for the splitter): with ratios that do not sum to 1.0
\* split() reports failure at its start: it never gathers into an
\* assignment, assigns no video, creates no directory and copies nothing.
C20_InvalidRatiosFailAtStart ==
  (ratios[1] + ratios[2] + ratios[3] # 100 /\ sPc # "start") =>
    /\ sPc = "failed" /\ split_result = FailedSplit
    /\ train = <<>> /\ val = <<>> /\ test = <<>>
    /\ NothingWritten

\* ========================================================================
\* Write-once output paths (checked under SpecAugment)
\* ========================================================================
\* C21 (as claimed, for augment_dataset): no two cv2.imwrite calls of one
\* run, for originals or variants of any source images, go to the same path.
C21_EveryPathWrittenOnce ==
  \A i, j \in DOMAIN aug_written : i # j => aug_written[i].path # aug_written[j].path

\* ========================================================================
\* separate_images_by_ball: properties (checked under SpecSeparate)
\* ========================================================================
\* The entries of the two output folders that hold input image i.
CopiesOf(i) ==
  {<<"Ball_detected", e.name>> : e \in {x \in ball_dir : x.content = i}}
    \cup {<<"No_ball_detected", e.name>> : e \in {x \in no_ball_dir : x.content = i}}
\* One path holds one file.
UniqueNames(dir) == \A e1, e2 \in dir : e1.name = e2.name => e1 = e2
\* The step moved source image `src` into `dir`, to its own name if that was
\* free and else to the first free suffixed name; every file of dir is kept.
MovedWithoutOverwrite(dir, dirAfter) ==
  /\ dir \subseteq dirAfter
  /\ \A e \in dirAfter \ dir :
       LET src == images_to_process[e.content].name IN
       \/ e.name = FileName(src) /\ ~Exists(dir, FileName(src))
       \/ /\ Exists(dir, FileName(src))
          /\ \E k \in 1..(Cardinality(dir) + 1) :
               /\ e.name = Candidate(src, k)
               /\ ~Exists(dir, e.name)
               /\ \A j \in 1..(k - 1) : Exists(dir, Candidate(src, j))

\* C22: after a run of main() without --dry-run that returns 0, every input
\* image is held by exactly one file of Ball_detected / No_ball_detected and
\* has left the input folder, moved_ball + moved_no_ball = total = the number
\* of images; and no step removes or replaces a file of the two folders: a
\* moved image takes its own name if free, else the first free suffix _1, _2...
C22_EveryImageMovedOnce ==
  /\ []((mPc = "done" /\ exit_code = 0 /\ ~dry_run) =>
          /\ \A i \in DOMAIN images_to_process :
               /\ Cardinality(CopiesOf(i)) = 1
               /\ FileName(images_to_process[i].name) \notin input_files
          /\ moved_ball + moved_no_ball = Len(images_to_process)
          /\ total = Len(images_to_process))
  /\ [](UniqueNames(ball_dir) /\ UniqueNames(no_ball_dir))
  /\ [][/\ MovedWithoutOverwrite(ball_dir, ball_dir')
        /\ MovedWithoutOverwrite(no_ball_dir, no_ball_dir')]_vars

\* Two images were moved into a Ball_detected folder that already held f.jpg
\* and f_1.jpg: f took the suffix _2 and f_1 the suffix _1.
C22_Witness ==
  /\ mPc = "done" /\ exit_code = 0 /\ ~dry_run
  /\ [name |-> "f_2.jpg", content |-> 1] \in ball_dir
  /\ [name |-> "f_1_1.jpg", content |-> 2] \in ball_dir
  /\ [name |-> "f.jpg", content |-> 0] \in ball_dir

\* The folder the detector's own outcome for image i calls for.
OwnFolder(i) ==
  IF DetectOne(images_to_process[i]) THEN "Ball_detected" ELSE "No_ball_detected"
\* The detector returned for image i a box whose class name holds a keyword.
ReturnedBallBox(i) ==
  /\ returned[i] = "result"
  /\ \E k \in DOMAIN images_to_process[i].boxes :
       \E kw \in Keywords : Contains(Lower(ClassNames[images_to_process[i].boxes[k]]), kw)

\* C23 (as claimed): a classified image is put in Ball_detected if and only
\* if the detector returned for it at least one box whose class name holds
\* ball / basket / basketball; in every other case it is put in
\* No_ball_detected.
C23_DetectedIffBallBox ==
  \A i \in DOMAIN placed :
    placed[i] # "" => (placed[i] = "Ball_detected" <=> ReturnedBallBox(i))

\* C24 (as claimed): the folder of an image depends only on the detector's
\* outcome for that image, whatever the batch size, the grouping and the
\* order: it is the folder a run on that image alone chooses.
C24_FolderIndependentOfBatch ==
  \A i \in DOMAIN placed : placed[i] # "" => placed[i] = OwnFolder(i)

\* ========================================================================
\* run_pipeline: properties (checked under SpecPipeline)
\* ========================================================================
Started(stage) == \E k \in DOMAIN events : events[k] = Event(stage, "start")
Succeeded(stage) == \E k \in DOMAIN events : events[k] = Event(stage, "ok")
\* The stages never overlap and run in increasing order: a stage starts at
\* most once, the event after its start is its own report, and whatever
\* starts later is a later stage that starts after that report.
InStageOrder ==
  \A k \in DOMAIN events :
    /\ events[k].ev = "start" =>
         /\ k < Len(events) => events[k + 1].stage = events[k].stage /\ events[k + 1].ev # "start"
         /\ \A j \in 1..(k - 1) : events[j].stage < events[k].stage
    /\ events[k].ev # "start" =>
         k > 1 /\ events[k - 1] = Event(events[k].stage, "start")
\* A stage that reports failure is the last thing that happens, and the run
\* returns 1.
FailureStops ==
  \A k \in DOMAIN events :
    events[k].ev = "failed" =>
      /\ k = Len(events)
      /\ ~banner
      /\ rPc \in {"stopped", "done"}
      /\ rPc = "done" => pipeline_exit = 1

\* C25 (as claimed): the stages run in the order trim, extraction, detection,
\* one after the other; after a stage reports failure nothing more is started
\* and the run returns 1; the banner is printed only if all three stages
\* reported success.
C25_BannerNeedsThreeStages ==
  /\ InStageOrder
  /\ FailureStops
  /\ banner => Succeeded(1) /\ Succeeded(2) /\ Succeeded(3)

\* C25 (amended): as above, but the banner is printed only if extraction and
\* detection reported success and trimming either reported success or, in
\* interactive mode with no video selected for trimming, was not run at all.
C25_BannerNeedsStagesThatRan ==
  /\ InStageOrder
  /\ FailureStops
  /\ banner =>
       /\ Succeeded(2) /\ Succeeded(3)
       /\ Succeeded(1) \/ (~auto /\ videos_to_trim = <<>> /\ ~Started(1))

\* An interactive run in which one of two trims failed, all three stages
\* ran and the banner was printed.
C25_Witness ==
  /\ banner /\ ~auto /\ rPc = "done" /\ pipeline_exit = 0
  /\ Len(videos_to_trim) = 2 /\ Len(trimmed_folders) = 1
  /\ Len(events) = 6

\* ========================================================================
\* augment_dataset: folders and unreadable images (checked under SpecAugment)
\* ========================================================================
\* the sub-folders that exist under output_dir: makedirs(output_subfolder)
\* is followed at once by the write of the original
OutputFolders == {aug_written[i].subfolder : i \in DOMAIN aug_written}

\* C26 (as claimed): after a successful augment_dataset the sub-folders under
\* output_dir are exactly the sub-folders under input_dir, and every file made
\* from an image of input_dir/<rel> lies in output_dir/<rel>.
C26_FolderStructurePreserved ==
  (gPc = "done" /\ aug_result.success) =>
    /\ OutputFolders = SourceFolders
    /\ \A i \in DOMAIN aug_written :
         aug_written[i].subfolder = aug_files[aug_written[i].src].folder

\* the source images that decode, in processing order
ReadableSources == SelectSeq([k \in DOMAIN aug_files |-> k], LAMBDA k : aug_files[k].readable)
\* the write a run makes for variant v of source k: the original for v = 0,
\* else the variant some draw of the transforms gives
IsWriteOf(w, k, v) ==
  LET f == aug_files[k]
      ann == AnnotationOf(f.folder, f.stem)
  IN /\ w.src = k /\ w.variant = v /\ w.subfolder = f.folder
     /\ IF v = 0
        THEN w.path = OutputPath(f.folder, f.stem) /\ w.boxes = ann
        ELSE \E d \in VariantDraws :
               LET r == ApplyAugmentations(ann, v, d)
               IN /\ w.path = OutputPath(f.folder, f.stem \o "_" \o r.aug_desc)
                  /\ w.boxes = r.aug_bboxes

\* C27: when augment_dataset has returned, no image or annotation was written
\* for a source image that does not decode, the counts count decoded images
\* only, and the writes are those of a run over the decoded images alone: for
\* each of them in order, its original and then its K variants.
C27_UnreadableSkipped ==
  (gPc = "done" /\ aug_result.success) =>
    /\ \A i \in DOMAIN aug_written : aug_files[aug_written[i].src].readable
    /\ aug_result.original_count = Len(ReadableSources)
    /\ aug_result.augmented_count = Len(ReadableSources) * aug_per_image
    /\ Len(aug_written) = Len(ReadableSources) * (1 + aug_per_image)
    /\ \A i \in DOMAIN aug_written :
         IsWriteOf(aug_written[i],
                   ReadableSources[((i - 1) \div (1 + aug_per_image)) + 1],
                   (i - 1) % (1 + aug_per_image))

\* An unreadable image came before a readable one, which was written with
\* its two variants.
C27_Witness ==
  /\ gPc = "done" /\ aug_result.success /\ aug_per_image = 2
  /\ Len(aug_files) = 2 /\ ~aug_files[1].readable /\ aug_files[2].readable
  /\ Len(aug_written) = 3 /\ aug_result.original_count = 1

\* ========================================================================
\* filter_frames: the counts of a call (checked under SpecFilter)
\* ========================================================================
\* the positions of the files cv2.imread could not read
UnreadableFiles == {k \in DOMAIN frames : frames[k] = None}

Flipped == \E k \in DOMAIN aug_image : aug_image[k][1] = "flip"
ZoomsApplied == {aug_image[k][2] : k \in {j \in DOMAIN aug_image : aug_image[j][1] = "zoom"}}
ZoomedIn == \E z \in ZoomsApplied : z[1] > z[2]
\* what the blocks that ran make of the single box b: the empty list or one box
Alone(b) ==
  LET flipped == IF Flipped THEN HorizontalFlip(<<b>>) ELSE <<b>>
  IN IF ZoomsApplied = {} THEN flipped
     ELSE ZoomImage(CHOOSE z \in ZoomsApplied : TRUE, flipped)
RECURSIVE BoxByBox(_)
BoxByBox(bs) == IF bs = <<>> THEN <<>> ELSE Alone(Head(bs)) \o BoxByBox(Tail(bs))
\* out is in, with some boxes left out, as far as the class ids tell
ClassSubsequence(out, in) ==
  \E f \in [DOMAIN out -> DOMAIN in] :
    /\ \A a, b \in DOMAIN out : a < b => f[a] < f[b]
    /\ \A a \in DOMAIN out : out[a][1] = in[f[a]][1]

\* C30: at every point of apply_augmentations the boxes held are, in input
\* order, what the blocks run so far make of each input box on its own, so
\* they are an order-preserving sub-sequence of the input with the class ids
\* unchanged; a box is missing only after a zoom with factor > 1, and without
\* such a zoom there are as many boxes as in the input.
C30_BoxesAreSubsequence ==
  /\ aug_bboxes = BoxByBox(bboxes)
  /\ ClassSubsequence(aug_bboxes, bboxes)
  /\ Len(aug_bboxes) < Len(bboxes) => ZoomedIn
  /\ ~ZoomedIn => Len(aug_bboxes) = Len(bboxes)

\* Flip and a zoom by 3/2 ran on two boxes of different classes, and only
\* the second box came back.
C30_Witness ==
  /\ vPc = "returned" /\ Flipped /\ ZoomsApplied = {<<3, 2>>}
  /\ Len(bboxes) = 2 /\ bboxes[1][1] # bboxes[2][1]
  /\ Len(aug_bboxes) = 1 /\ aug_bboxes[1][1] = bboxes[2][1]

\* ========================================================================
\* apply_augmentations: the caller's objects (checked under SpecObjects)
\* ========================================================================
\* C28: no step of apply_augmentations changes the image, the box list or a
\* box that the caller passed in, whatever blocks are activated; and every
\* call of the variant loop starts from copies that equal the decoded image
\* and the parsed annotation, not from what an earlier variant left.
C28_InputsNeverModified ==
  /\ [][\A a \in SourceObjects : heap'[a] = heap[a]]_vars
  /\ [](/\ heap[image_ref].data = <<>>
        /\ BoxValues(heap, bboxes_ref) = parsed)
  /\ []((oPc = "brightness") =>
          /\ heap[aug_image_ref].data = <<>>
          /\ BoxValues(heap, aug_bboxes_ref) = parsed
          /\ aug_image_ref \notin SourceObjects /\ aug_bboxes_ref \notin SourceObjects)

\* The second variant of an annotated frame is under way after flip has run
\* in this call: the boxes in hand differ from the caller's, which are intact.
C28_Witness ==
  /\ loop_aug_id = 1 /\ oPc = "rotation" /\ Len(parsed) = 2
  /\ BoxValues(heap, aug_bboxes_ref) # parsed
  /\ BoxValues(heap, bboxes_ref) = parsed

====
